---- MODULE Spec2Model ----
(***************************************************************************)
(* A model of the persistence / synchronisation layer and the Workrooms    *)
(* engine of akaoio/dashboard:                                             *)
(*   - LocalAdapter     (snapshot adapter, one JSON file)                  *)
(*   - BaseMemoryAdapter subscriptions, as used by LocalAdapter and        *)
(*     ComposerAdapter                                                     *)
(*   - ComposerAdapter  (file-tree adapter)                                *)
(*   - WorkroomsService (rooms, membership, messages over the Air store)   *)
(* Each subsystem has its own specification over the shared state; the     *)
(* actions of one subsystem leave the variables of the others unchanged.   *)
(***************************************************************************)
EXTENDS Integers, Sequences, FiniteSets, Bags, TLC

VARIABLES
    \* ---- LocalAdapter ----
    data,        \* this.data: Map<string, any>, in insertion order
    isDirty,     \* this.isDirty
    saveTimer,   \* this.saveTimer # null
    ready,       \* this.ready
    file,        \* content of config.dataFile on disk
    tmp,         \* content of `${dataFile}.tmp` on disk
    saves,       \* the save() calls in flight, in the order they started
    disc,        \* the disconnect() call: "none", "saving", "resolved", "rejected"
    lastOp,      \* the last call made on the LocalAdapter, or a rejected save (history)
    atDisc,      \* the map as it was when disconnect() was last called (history)
    before,      \* the map as it was when delete() was last called (history)
    nSets,       \* number of set() calls made so far
    nDeletes,    \* number of delete() calls made so far
    nSaves,      \* number of save() calls made so far
    nConnects,   \* number of connect() calls made so far
    \* ---- LocalAdapter subscriptions ----
    lSubscribers, \* this.subscribers: Map<string, Set<callback>>
    lListeners,   \* the 'change' listeners of this.events, in registration order
    lSubs,        \* the subscribe() calls made: path, callback, unsubscribe called or not
    lCalls,       \* the callback invocations made by the last set/delete (history)
    \* ---- ComposerAdapter ----
    cData,        \* this.data: Map<string, any>, the in-memory cache
    cFiles,       \* the files under config.dataDir, by path key
    cOps,         \* the set()/delete() calls in flight, in the order they started
    cSubscribers, \* this.subscribers: Map<string, Set<callback>>
    cPolling,     \* the keys of this.pollingIntervals
    cSubs,        \* the subscribe() calls made: path, callback, unsubscribe called or not
    cCalls,       \* the callback invocations made by the last step (history)
    cLast,        \* the last step, when it completed a call or was a poll (history)
    nCSets,       \* number of set() calls made so far
    nCDeletes,    \* number of delete() calls made so far
    \* ---- WorkroomsService ----
    wUp,          \* the users whose WorkroomsService has been constructed
    sRooms,       \* the store under 'workrooms': room id -> room
    sMsgs,        \* the store under 'workroom-messages': message id -> message
    wRooms,       \* this.rooms of each user's service
    wMessages,    \* this.messages of each user's service
    wMsgSubs,     \* the rooms each service registered a message handler for
    wOps,         \* the set of createRoom()/sendMessage() calls in flight
    wSend,        \* the sendMessage() call made by the last step, if any (history)
    wSent,        \* the messages returned by sendMessage() calls (history)
    wCreated,     \* the rooms returned by createRoom() calls on running services (history)
    now,          \* Date.now()
    nCalls,       \* number of joinRoom/leaveRoom/sendMessage calls not refused so far
    nPeerPuts,    \* number of messages other peers have put again
    \* ---- ComposerAdapter: the watcher of the data directory ----
    cEvents,      \* the events the watcher has still to report, oldest first
    cReads,       \* the onFileAdded/onFileChanged calls in flight
    nXChanges,    \* number of changes other processes made to the data directory
    \* ---- WorkroomsService: typing indicators ----
    sTyping,      \* the store under 'workroom-typing': (user, room) -> timestamp or 0
    tOps,         \* the setTyping(room, true) calls waiting for the store, per (user, room)
    tTimers,      \* the timers set by setTyping(room, true) and not yet fired, per (user, room)
    tLast,        \* the setTyping() call or timer of the last step, if any (history)
    nTypingCalls, \* number of setTyping() calls made on the services so far
    \* ---- AdapterRegistry ----
    adapters,       \* the names of AdapterRegistry.adapters, in insertion order
    primaryAdapter, \* AdapterRegistry.primaryAdapter
    aFlag,          \* per adapter: what isConnected() returns (ready / connected)
    aUp,            \* per adapter: whether its backend can be reached
    conn,           \* per adapter: its promise in the connectAll() in flight
    connAll,        \* the last connectAll() call: "idle", "waiting", "resolved"
    hcPos,          \* the place of healthCheck()'s iteration in the Map; 0: none runs
    hcResults,      \* healthCheck()'s results, in the order they were written
    rLast,          \* the registry call of the last step, if any (history)
    nRegistryCalls, \* number of calls made on the registry so far
    nBackend,       \* number of times a backend came or went
    \* ---- publish() ----
    pArrays,      \* the arrays handed to set() by publish(), by identity
    pStore,       \* per adapter and channel: the array under the channel's path, 0: none
    pOps,         \* the publish() calls waiting for their get()
    pPublished,   \* per adapter and channel: the messages published, in call order (history)
    nPublishes,   \* number of publish() calls made so far
    \* ---- batch() ----
    bData,        \* the cache (this.data) of the adapter batch() runs on
    bFiles,       \* the files of that adapter
    bOps,         \* the operations of the last batch() call
    bPos,         \* the operation batch() is at
    bStage,       \* "idle", "awaiting" an operation, "resolved" or "rejected"
    bFailed,      \* the places of the operations that were rejected (history)
    bBefore,      \* the cache and the files when batch() was called (history)
    nBatches,     \* number of batch() calls made so far
    \* ---- get() and exists() ----
    gData,        \* this.data of a LocalAdapter
    gcData,       \* this.data (the cache) of a ComposerAdapter
    gcFiles,      \* the files of that ComposerAdapter
    gStatus,      \* per adapter and key: never set, deleted, or the value stored (history)
    gLast,        \* the get()/exists() of the last step and what it returned (history)
    nGCalls,      \* number of calls made on the two adapters so far
    \* ---- WorkroomsService: membership, presence and events ----
    eStore,       \* the store under 'workrooms': room id -> room
    eStPres,      \* the store under 'workroom-presence': room id -> user -> record
    eStMsgs,      \* the store under 'workroom-messages'
    eObjs,        \* per service: its room objects
    eRooms,       \* per service: this.rooms, room id -> object (0: no entry)
    eMessages,    \* per service: the room ids this.messages has a list for
    eOps,         \* the calls waiting for the store
    eEmit,        \* the events handed to the handlers in the last step (history)
    eLast,        \* the call that settled in the last step (history)
    eSent,        \* per room: sendMessage() calls that resolved (history)
    eLeft,        \* the (user, room) pairs leaveRoom() was called for (history)
    eCreated,     \* createRoom() calls made so far
    nECalls,      \* calls made on the services so far
    nEFail,       \* puts the store refused so far
    \* ---- command dispatch ----
    dPending,     \* the commands whose handleCommand() has not settled
    dReply,       \* the message sent on the socket in the last step (history)
    dFailed,      \* the action and error of the command that failed in the last step (history)
    nDCommands,   \* commands received so far
    \* ---- list() ----
    qData,        \* this.data of a LocalAdapter
    qLast,        \* the list() of the last step and what it returned (history)
    nQCalls,      \* calls made on that adapter so far
    \* ---- adapter lifecycle ----
    aData,        \* this.data of the LocalAdapter
    aFile,        \* the data file
    aDirty,       \* this.isDirty
    aReady,       \* this.ready
    aSaveTimer,   \* this.saveTimer: the timer it holds, 0 for null
    aTimers,      \* the intervals set and not cleared
    aLast,        \* the call of the last step (history)
    nACalls,      \* connect(), set() and disconnect() calls made so far
    \* ---- NetworkMonitor ----
    pPeers,       \* this.peers: the status kept for each peer
    pRound,       \* pingPeers() calls made so far
    pProm,        \* the promise of each peer in the current round
    pTimers,      \* the peers whose 3 s timer is armed
    pAcks,        \* the acks that may still arrive, by round and peer
    pRunning,     \* pingPeers() has not completed
    pEmit,        \* the events emitted in the last step (history)
    pLast,        \* the callback of the last step (history)
    \* ---- default rooms ----
    iStore,       \* the rooms under 'workrooms' in the store
    iUser,        \* the current user of each service constructed
    iObjs,        \* the room objects its createRoom() calls built
    iStage,       \* the await each of these calls is at
    iRooms,       \* this.rooms of each service
    \* ---- AgentTracker ----
    kAgents,      \* this.agents: the status of each agent
    kPending,     \* the agents whose registerAgent() awaits its ack
    kLast,        \* the call of the last step (history)
    nKCalls,      \* calls made on the tracker so far
    \* ---- MessageFeed ----
    fMax,         \* this.maxMessages, 0 before the feed is constructed
    fMessages,    \* this.messages
    fArrived,     \* messages that have arrived so far
    fLast,        \* the call of the last step and what it returned (history)
    \* ---- direct messages ----
    mRooms,       \* this.rooms of the service
    mOps,         \* the createRoom() calls that await a put
    mLast,        \* the call of the last step and the room it returned (history)
    mCreated      \* createRoom() calls that have returned

localVars == <<data, isDirty, saveTimer, ready, file, tmp, saves, disc,
               lastOp, atDisc, before, nSets, nDeletes, nSaves, nConnects>>

lsubVars == <<lSubscribers, lListeners, lSubs, lCalls>>

composerVars == <<cData, cFiles, cOps, cSubscribers, cPolling, cSubs, cCalls, cLast,
                  nCSets, nCDeletes>>

roomVars == <<wUp, sRooms, sMsgs, wRooms, wMessages, wMsgSubs, wOps, wSend, wSent,
              wCreated, now, nCalls, nPeerPuts>>

watchVars == <<cEvents, cReads, nXChanges>>

typingVars == <<sTyping, tOps, tTimers, tLast, nTypingCalls>>

registryVars == <<adapters, primaryAdapter, aFlag, aUp, conn, connAll, hcPos,
                  hcResults, rLast, nRegistryCalls, nBackend>>

\* the groups added after the typing indicators
publishVars == <<pArrays, pStore, pOps, pPublished, nPublishes>>

batchVars == <<bData, bFiles, bOps, bPos, bStage, bFailed, bBefore, nBatches>>

getVars == <<gData, gcData, gcFiles, gStatus, gLast, nGCalls>>

engineVars == <<eStore, eStPres, eStMsgs, eObjs, eRooms, eMessages, eOps, eEmit, eLast,
                eSent, eLeft, eCreated, nECalls, nEFail>>

\* the groups added after the get() and exists() calls
dispatchVars == <<dPending, dReply, dFailed, nDCommands>>

listVars == <<qData, qLast, nQCalls>>

lifeVars == <<aData, aFile, aDirty, aReady, aSaveTimer, aTimers, aLast, nACalls>>

pingVars == <<pPeers, pRound, pProm, pTimers, pAcks, pRunning, pEmit, pLast>>

seedVars == <<iStore, iUser, iObjs, iStage, iRooms>>

trackVars == <<kAgents, kPending, kLast, nKCalls>>

feedVars == <<fMax, fMessages, fArrived, fLast>>

dmVars == <<mRooms, mOps, mLast, mCreated>>

\* the groups added after list()
lastVars == <<lifeVars, pingVars, seedVars, trackVars, feedVars, dmVars>>

laterVars == <<engineVars, dispatchVars, listVars, lastVars>>

moreVars == <<registryVars, publishVars, batchVars, getVars, laterVars>>

restVars == <<watchVars, typingVars, moreVars>>

oldVars == <<localVars, lsubVars, composerVars, roomVars, watchVars, typingVars>>

notRegistry == <<oldVars, publishVars, batchVars, getVars, laterVars>>

notPublish == <<oldVars, registryVars, batchVars, getVars, laterVars>>

notBatch == <<oldVars, registryVars, publishVars, getVars, laterVars>>

notGet == <<oldVars, registryVars, publishVars, batchVars, laterVars>>

notEngine == <<oldVars, registryVars, publishVars, batchVars, getVars, dispatchVars, listVars, lastVars>>

notDispatch == <<oldVars, registryVars, publishVars, batchVars, getVars, engineVars, listVars, lastVars>>

notList == <<oldVars, registryVars, publishVars, batchVars, getVars, engineVars, dispatchVars, lastVars>>

notLife == <<oldVars, registryVars, publishVars, batchVars, getVars, engineVars, dispatchVars,
    listVars, pingVars, seedVars, trackVars, feedVars, dmVars>>

notPing == <<oldVars, registryVars, publishVars, batchVars, getVars, engineVars, dispatchVars,
    listVars, lifeVars, seedVars, trackVars, feedVars, dmVars>>

notSeed == <<oldVars, registryVars, publishVars, batchVars, getVars, engineVars, dispatchVars,
    listVars, lifeVars, pingVars, trackVars, feedVars, dmVars>>

notTrack == <<oldVars, registryVars, publishVars, batchVars, getVars, engineVars, dispatchVars,
    listVars, lifeVars, pingVars, seedVars, feedVars, dmVars>>

notFeed == <<oldVars, registryVars, publishVars, batchVars, getVars, engineVars, dispatchVars,
    listVars, lifeVars, pingVars, seedVars, trackVars, dmVars>>

notDm == <<oldVars, registryVars, publishVars, batchVars, getVars, engineVars, dispatchVars,
    listVars, lifeVars, pingVars, seedVars, trackVars, feedVars>>

vars == <<localVars, lsubVars, composerVars, roomVars, restVars>>

-----------------------------------------------------------------------------
(* Bounds of the model *)

\* set() calls made on the LocalAdapter
MaxSets == 2
\* delete() calls made on the LocalAdapter
MaxDeletes == 1
\* save() calls made (by the timer, the user and disconnect())
MaxSaves == 2
\* connect() calls (the first one, and reconnects of a fresh adapter)
MaxConnects == 2
\* subscribe() calls made on one adapter
MaxSubs == 2
\* rooms initializeDefaultRooms() seeds per service (17 in the source)
MaxDefaultRooms == 0
\* createRoom() calls made on running services
MaxCreates == 1
\* joinRoom(), leaveRoom() and sendMessage() calls that were not refused,
\* all together
MaxCalls == 3
\* messages put again by other peers of the store
MaxPeerPuts == 1
\* the last reading of the clock
MaxTime == 2
\* files written or removed in the data directory by other processes
MaxXChanges == 2
\* setTyping() calls made on the services
MaxTypingCalls == 3
\* register(), setPrimary(), connectAll() and healthCheck() calls, all together
MaxRegistryCalls == 5
\* times a backend becomes unreachable or reachable again
MaxBackend == 2
\* publish() calls made on the adapters, all together
MaxPublishes == 4
\* entries the LocalAdapter keeps per channel (100 in the source)
LocalCap == 2
\* entries the ComposerAdapter keeps per channel (1000 in the source)
ComposerCap == 3
\* operations in one batch() call
MaxBatchLen == 3
\* batch() calls made
MaxBatches == 2
\* set(), delete(), get() calls and external writes on the two adapters,
\* all together
MaxGCalls == 4
\* createRoom() calls made on the services of the membership model
MaxECreates == 2
\* calls made on the services of the membership model, all together
MaxECalls == 3
\* puts the store refuses
MaxEFailures == 1
\* room objects a service holds at a time
MaxObjs == 3
\* 'workroom-command' messages received
MaxDCommands == 2
\* set(), delete() and list() calls made on the LocalAdapter that is listed
MaxQCalls == 3
\* get() calls of the ComposerAdapter that are reading a file at one time
MaxCGets == 1
\* connect(), set() and disconnect() calls made on the LocalAdapter object
MaxACalls == 4
\* rounds of pingPeers()
MaxRounds == 2
\* services constructed over the store
MaxServices == 2
\* calls made on the AgentTracker
MaxKCalls == 3
\* the largest maxMessages of a MessageFeed
MaxFeedSize == 2
\* the largest count asked of getRecentMessages()
MaxFeedCount == 3
\* messages that arrive at the feed
MaxArrivals == 5
\* createRoom() calls made by createDirectMessage()
MaxDmCalls == 3

-----------------------------------------------------------------------------
(* Path keys: strings, modelled as sequences of characters so that         *)
(* startsWith and split('/') are computed character by character.          *)

PathA == <<"a">>
PathA_B == <<"a", "/", "b">>
PathAB == <<"a", "b">>

\* the path keys the callers use
Paths == {PathA, PathA_B, PathAB}

\* the path keys the callers of the ComposerAdapter use
ComposerPaths == {PathA, PathA_B}

\* String.prototype.startsWith
startsWith(s, prefix) ==
    /\ Len(prefix) <= Len(s)
    /\ SubSeq(s, 1, Len(prefix)) = prefix

\* String.prototype.split('/')
RECURSIVE split(_)
split(s) ==
    IF \A i \in 1..Len(s) : s[i] # "/"
    THEN <<s>>
    ELSE LET i == CHOOSE i \in 1..Len(s) :
                      s[i] = "/" /\ \A j \in 1..(i - 1) : s[j] # "/"
         IN  <<SubSeq(s, 1, i - 1)>> \o split(SubSeq(s, i + 1, Len(s)))

\* `${prefix}/${key}`
joinPath(prefix, key) == prefix \o <<"/">> \o key

-----------------------------------------------------------------------------
(* JavaScript values: tagged records.  An object is a function from its    *)
(* property names to values.                                               *)

Undefined == [t |-> "undef", v |-> 0]
Num(n) == [t |-> "num", v |-> n]
Arr(s) == [t |-> "arr", v |-> s]
Obj(f) == [t |-> "obj", v |-> f]

EmptyObj == Obj(<<>>)

\* the values the callers store: a scalar, an array, a nested object
Values == {Num(1), Arr(<<Num(1)>>), Obj(<<"b">> :> Num(1))}

\* the values the callers store in the ComposerAdapter
ComposerValues == {Num(1), Arr(<<Num(1)>>)}

\* obj[key] = value
Put(f, key, value) ==
    [x \in (DOMAIN f) \cup {key} |-> IF x = key THEN value ELSE f[x]]

\* a fixed enumeration of a finite set
SetToSeq(S) ==
    CHOOSE s \in [1..Cardinality(S) -> S] : \A i, j \in 1..Cardinality(S) :
        i # j => s[i] # s[j]

\* JSON.stringify: the document text, represented by the value it denotes;
\* members whose value is undefined are left out, undefined array elements
\* become null
RECURSIVE JSONstringify(_)
JSONstringify(x) ==
    CASE x.t = "obj" ->
            Obj([key \in {q \in DOMAIN x.v : x.v[q].t # "undef"} |->
                    JSONstringify(x.v[key])])
      [] x.t = "arr" ->
            Arr([i \in 1..Len(x.v) |->
                    IF x.v[i].t = "undef" THEN [t |-> "null", v |-> 0]
                    ELSE JSONstringify(x.v[i])])
      [] OTHER -> x

\* JSON.parse of a complete document
JSONparse(text) == text

\* contents of a file on disk
Absent == [t |-> "absent", v |-> 0]
Partial == [t |-> "partial", v |-> 0]
Doc(text) == [t |-> "doc", v |-> text]

-----------------------------------------------------------------------------
(* Map<string, any>: a sequence of entries in insertion order *)

MapHas(m, key) == \E i \in 1..Len(m) : m[i].k = key

MapGet(m, key) ==
    IF MapHas(m, key)
    THEN m[CHOOSE i \in 1..Len(m) : m[i].k = key].v
    ELSE Undefined

MapSet(m, key, value) ==
    IF MapHas(m, key)
    THEN [i \in 1..Len(m) |-> IF m[i].k = key THEN [k |-> key, v |-> value] ELSE m[i]]
    ELSE Append(m, [k |-> key, v |-> value])

MapKeys(m) == {m[i].k : i \in 1..Len(m)}

\* the map as a function from keys to values
MapFun(m) == [key \in MapKeys(m) |-> MapGet(m, key)]

-----------------------------------------------------------------------------
(* LocalAdapter helpers *)

getNestedValue(m, path) == MapGet(m, path)

setNestedValue(m, path, value) == MapSet(m, path, value)

\* deleteNestedValue with the descendants matched by `path` instead of
\* `path + '/'`
deleteNestedValueNoSlash(m, path) ==
    LET Keep(e) == e.k # path /\ ~startsWith(e.k, path)
    IN  SelectSeq(m, Keep)

deleteNestedValue(m, path) ==
    LET Keep(e) == e.k # path /\ ~startsWith(e.k, path \o <<"/">>)
    IN  SelectSeq(m, Keep)

exists(m, path) == getNestedValue(m, path) # Undefined

\* the node reached from `node` along `parts`, Undefined when there is none
RECURSIVE TreeGet(_, _)
TreeGet(node, parts) ==
    IF parts = <<>> THEN node
    ELSE IF node.t = "obj" /\ parts[1] \in DOMAIN node.v
         THEN TreeGet(node.v[parts[1]], Tail(parts))
         ELSE Undefined

\* pathToObject, the body of the loop for one entry: walk `parts` from
\* `current`, creating {} where a part is missing, and assign the value at
\* the last part.  `parts[i] in current` and the assignment throw a
\* TypeError on a primitive (module code is strict); on an array they
\* create a non-index property, which JSON.stringify does not serialise.
RECURSIVE insertAt(_, _, _)
insertAt(current, parts, value) ==
    IF Len(parts) = 1
    THEN CASE current.t = "obj" ->
                [ok |-> TRUE, node |-> Obj(Put(current.v, parts[1], value))]
           [] current.t = "arr" -> [ok |-> TRUE, node |-> current]
           [] OTHER -> [ok |-> FALSE, node |-> current]
    ELSE CASE current.t = "obj" ->
                LET child == IF parts[1] \in DOMAIN current.v
                             THEN current.v[parts[1]] ELSE EmptyObj
                    r == insertAt(child, Tail(parts), value)
                IN  [ok |-> r.ok, node |-> Obj(Put(current.v, parts[1], r.node))]
           [] current.t = "arr" -> [ok |-> TRUE, node |-> current]
           [] OTHER -> [ok |-> FALSE, node |-> current]

\* pathToObject: entries i..Len(m) of the map are inserted into `result`.
\* A stored object that was assigned into `result` is the same object as
\* the one in the map, so an insertion below it changes the stored value
\* too; `live` holds the keys whose stored object is still part of
\* `result`.
RECURSIVE pathToObjectFrom(_, _, _, _)
pathToObjectFrom(m, i, result, live) ==
    IF i > Len(m) THEN [ok |-> TRUE, obj |-> result, map |-> m]
    ELSE
      LET key == m[i].k
          parts == split(key)
          r == insertAt(result, parts, m[i].v)
          placed == r.ok /\ TreeGet(r.node, parts) = m[i].v
          kept == IF placed
                  THEN {q \in live : ~startsWith(q, key \o <<"/">>)}
                  ELSE live
          live2 == IF placed /\ m[i].v.t = "obj" THEN kept \cup {key} ELSE kept
          m2 == [j \in 1..Len(m) |->
                    IF m[j].k \in live2
                    THEN [k |-> m[j].k, v |-> TreeGet(r.node, split(m[j].k))]
                    ELSE m[j]]
      IN  IF r.ok THEN pathToObjectFrom(m2, i + 1, r.node, live2)
          ELSE [ok |-> FALSE, obj |-> r.node, map |-> m2]

pathToObject(m) == pathToObjectFrom(m, 1, EmptyObj, {})

\* objectToPath(obj, prefix), applied to the map m
RECURSIVE objectToPath(_, _, _)
RECURSIVE objectToPathKeys(_, _, _, _)
objectToPath(m, obj, prefix) ==
    IF obj.t \notin {"obj", "arr"}
    THEN IF prefix # <<>> THEN MapSet(m, prefix, obj) ELSE m
    ELSE IF obj.t = "obj"
         THEN objectToPathKeys(m, obj, prefix, SetToSeq(DOMAIN obj.v))
         ELSE m

\* the `for (const key in obj)` loop of objectToPath
objectToPathKeys(m, obj, prefix, keys) ==
    IF keys = <<>> THEN m
    ELSE LET key == keys[1]
             path == IF prefix # <<>> THEN joinPath(prefix, key) ELSE key
             value == obj.v[key]
             m2 == IF value.t = "obj"
                   THEN objectToPath(m, value, path)
                   ELSE MapSet(m, path, value)
         IN  objectToPathKeys(m2, obj, prefix, Tail(keys))

-----------------------------------------------------------------------------
(* BaseMemoryAdapter subscriptions.  this.subscribers maps a path to a Set *)
(* of callbacks; a Set holds a callback once and iterates in insertion     *)
(* order, so it is a sequence without repetitions.                         *)

\* the callback functions the callers pass
Callbacks == {"f", "g"}

Range(s) == {s[i] : i \in 1..Len(s)}

\* a function without the key
Without(f, key) == [x \in (DOMAIN f) \ {key} |-> f[x]]

\* subscribe(path, callback): the Set of the path, created when missing,
\* gets the callback added
baseSubscribe(subscribers, path, callback) ==
    LET subs == IF path \in DOMAIN subscribers THEN subscribers[path] ELSE <<>>
    IN  Put(subscribers, path,
            IF callback \in Range(subs) THEN subs ELSE Append(subs, callback))

\* the unsubscribe function returned by subscribe(path, callback): the
\* callback is deleted from the Set of the path; an empty Set is removed
\* and stopPolling(path) is called (`stop`)
baseUnsubscribe(subscribers, path, callback) ==
    IF path \notin DOMAIN subscribers
    THEN [subscribers |-> subscribers, stop |-> FALSE]
    ELSE LET Other(c) == c # callback
             subs == SelectSeq(subscribers[path], Other)
         IN  IF subs = <<>>
             THEN [subscribers |-> Without(subscribers, path), stop |-> TRUE]
             ELSE [subscribers |-> Put(subscribers, path, subs), stop |-> FALSE]

\* notifySubscribers(path, data): the invocations it makes, in order
notifySubscribers(subscribers, path, value) ==
    IF path \in DOMAIN subscribers
    THEN [i \in 1..Len(subscribers[path]) |->
            [cb |-> subscribers[path][i], value |-> value]]
    ELSE <<>>

-----------------------------------------------------------------------------
(* LocalAdapter: state after construction *)

NoOp == [op |-> "none", path |-> <<>>]

InitLocal ==
    /\ data = <<>>
    /\ isDirty = FALSE
    /\ saveTimer = FALSE
    /\ ready = FALSE
    /\ file = Absent
    /\ tmp = Absent
    /\ saves = <<>>
    /\ disc = "none"
    /\ lastOp = NoOp
    /\ atDisc = <<>>
    /\ before = <<>>
    /\ nSets = 0
    /\ nDeletes = 0
    /\ nSaves = 0
    /\ nConnects = 0
    /\ lSubscribers = <<>>
    /\ lListeners = <<>>
    /\ lSubs = <<>>
    /\ lCalls = <<>>

\* a sequence without its i-th element
RemoveAt(s, i) == SubSeq(s, 1, i - 1) \o SubSeq(s, i + 1, Len(s))

\* load(): readFile, JSON.parse, objectToPath into the (empty) map of a
\* freshly constructed adapter; a missing file leaves the map empty
load(content) ==
    IF content.t = "absent" THEN <<>>
    ELSE objectToPath(<<>>, JSONparse(content.v), <<>>)

\* connect() of a freshly constructed adapter over the data file: the first
\* connect, or the connect after the previous adapter has disconnected and
\* its pending file operations have drained.  JSON.parse throws on a file
\* that is not a complete document, and connect() rejects.
LConnect ==
    /\ UNCHANGED <<lsubVars, composerVars, roomVars, restVars>>
    /\ ~ready
    /\ disc \in {"none", "resolved"}
    /\ saves = <<>>
    /\ nConnects < MaxConnects
    /\ nConnects' = nConnects + 1
    /\ IF file.t = "partial"
       THEN /\ lastOp' = [op |-> "connectRejected", path |-> <<>>]
            /\ UNCHANGED <<data, isDirty, saveTimer, ready, disc>>
       ELSE /\ data' = load(file)
            /\ isDirty' = FALSE
            /\ saveTimer' = TRUE
            /\ ready' = TRUE
            /\ disc' = "none"
            /\ lastOp' = [op |-> "connect", path |-> <<>>]
    /\ UNCHANGED <<file, tmp, saves, atDisc, before, nSets, nDeletes, nSaves>>

\* this.events.emit('change', changedPath, value): every changeHandler
\* registered by subscribe() runs, in registration order, and calls its
\* callback when the changed path is its path or lies below it
emitChange(listeners, subs, changedPath, value) ==
    LET Matches(i) == \/ changedPath = subs[i].path
                      \/ startsWith(changedPath, subs[i].path \o <<"/">>)
        hit == SelectSeq(listeners, Matches)
    IN  [n \in 1..Len(hit) |-> [cb |-> subs[hit[n]].cb, value |-> value]]

\* this.events.emit('delete', path): subscribe() registers no listener for
\* the 'delete' event
emitDelete(listeners, subs, path) == <<>>

\* set(path, value)
LSet(path, value) ==
    /\ ready
    /\ disc = "none"
    /\ nSets < MaxSets
    /\ nSets' = nSets + 1
    /\ data' = setNestedValue(data, path, value)
    /\ isDirty' = TRUE
    /\ lastOp' = [op |-> "set", path |-> path]
    /\ lCalls' = emitChange(lListeners, lSubs, path, value)
                    \o notifySubscribers(lSubscribers, path, value)
    /\ UNCHANGED <<lSubscribers, lListeners, lSubs, composerVars, roomVars, restVars>>
    /\ UNCHANGED <<saveTimer, ready, file, tmp, saves, disc, atDisc, before, nDeletes,
                   nSaves, nConnects>>

\* delete(path)
LDelete(path) ==
    /\ ready
    /\ disc = "none"
    /\ nDeletes < MaxDeletes
    /\ nDeletes' = nDeletes + 1
    /\ before' = data
    /\ data' = deleteNestedValue(data, path)
    /\ isDirty' = TRUE
    /\ lastOp' = [op |-> "delete", path |-> path]
    /\ lCalls' = emitDelete(lListeners, lSubs, path)
                    \o notifySubscribers(lSubscribers, path, Undefined)
    /\ UNCHANGED <<lSubscribers, lListeners, lSubs, composerVars, roomVars, restVars>>
    /\ UNCHANGED <<saveTimer, ready, file, tmp, saves, disc, atDisc, nSets, nSaves, nConnects>>

\* save(), up to its first await: pathToObject and JSON.stringify run at
\* once, then writeFile is requested.  A TypeError thrown by pathToObject
\* rejects the call before anything is written.  `awaited` tells whether
\* disconnect() awaits this call.
saveStarted(awaited) ==
    LET r == pathToObject(data)
    IN  [ok |-> r.ok,
         map |-> r.map,
         saves |-> IF r.ok
                   THEN Append(saves, [snap |-> JSONstringify(r.obj), pc |-> "open",
                                       fd |-> "none", awaited |-> awaited])
                   ELSE saves]

\* the auto-save timer fires: `if (this.isDirty) this.save().catch(...)`
LTimerTick ==
    /\ UNCHANGED <<lsubVars, composerVars, roomVars, restVars>>
    /\ saveTimer
    /\ isDirty
    /\ nSaves < MaxSaves
    /\ nSaves' = nSaves + 1
    /\ LET s == saveStarted(FALSE)
       IN  /\ data' = s.map
           /\ saves' = s.saves
           /\ lastOp' = [op |-> IF s.ok THEN "save" ELSE "saveRejected", path |-> <<>>]
    /\ UNCHANGED <<isDirty, saveTimer, ready, file, tmp, disc, atDisc, before, nSets, nDeletes,
                   nConnects>>

\* save() called by the user of the adapter
LSave ==
    /\ UNCHANGED <<lsubVars, composerVars, roomVars, restVars>>
    /\ ready
    /\ disc = "none"
    /\ nSaves < MaxSaves
    /\ nSaves' = nSaves + 1
    /\ LET s == saveStarted(FALSE)
       IN  /\ data' = s.map
           /\ saves' = s.saves
           /\ lastOp' = [op |-> IF s.ok THEN "save" ELSE "saveRejected", path |-> <<>>]
    /\ UNCHANGED <<isDirty, saveTimer, ready, file, tmp, disc, atDisc, before, nSets, nDeletes,
                   nConnects>>

\* disconnect(): the timer is cleared; `if (this.isDirty) await this.save()`;
\* without a save it resolves at once
LDisconnect ==
    /\ UNCHANGED <<lsubVars, composerVars, roomVars, restVars>>
    /\ ready
    /\ disc = "none"
    /\ saveTimer' = FALSE
    /\ atDisc' = MapFun(data)
    /\ IF isDirty
       THEN /\ nSaves < MaxSaves
            /\ nSaves' = nSaves + 1
            /\ LET s == saveStarted(TRUE)
               IN  /\ data' = s.map
                   /\ saves' = s.saves
                   /\ disc' = IF s.ok THEN "saving" ELSE "rejected"
                   /\ lastOp' = [op |-> IF s.ok THEN "disconnect" ELSE "saveRejected",
                                 path |-> <<>>]
            /\ UNCHANGED ready
       ELSE /\ ready' = FALSE
            /\ disc' = "resolved"
            /\ lastOp' = [op |-> "disconnect", path |-> <<>>]
            /\ UNCHANGED <<data, saves, nSaves>>
    /\ UNCHANGED <<isDirty, file, tmp, before, nSets, nDeletes, nConnects>>

\* fs.writeFile(tempFile, ...) opens the temp file with flag 'w': the file
\* is created or truncated
LSaveOpen(i) ==
    /\ UNCHANGED <<lsubVars, composerVars, roomVars, restVars>>
    /\ i \in 1..Len(saves)
    /\ saves[i].pc = "open"
    /\ tmp' = Partial
    /\ saves' = [saves EXCEPT ![i].pc = "writing", ![i].fd = "tmp"]
    /\ UNCHANGED <<data, isDirty, saveTimer, ready, file, disc, lastOp, atDisc, before, nSets,
                   nDeletes, nSaves, nConnects>>

\* what a file holds once `text` has been written from offset 0 into it:
\* the text, unless another writer's complete text of another length was
\* there, and then either the text or a mix of the two
written(old, text) ==
    IF old.t = "doc" /\ old.v # text THEN {Doc(text), Partial} ELSE {Doc(text)}

\* fs.writeFile writes the text through its descriptor and closes it; the
\* descriptor still names the file that was opened, also after a rename
LSaveWrite(i) ==
    /\ UNCHANGED <<lsubVars, composerVars, roomVars, restVars>>
    /\ i \in 1..Len(saves)
    /\ saves[i].pc = "writing"
    /\ CASE saves[i].fd = "tmp" ->
                /\ tmp' \in written(tmp, saves[i].snap)
                /\ UNCHANGED file
         [] saves[i].fd = "file" ->
                /\ file' \in written(file, saves[i].snap)
                /\ UNCHANGED tmp
         [] OTHER -> UNCHANGED <<file, tmp>>
    /\ saves' = [saves EXCEPT ![i].pc = "written", ![i].fd = "none"]
    /\ UNCHANGED <<data, isDirty, saveTimer, ready, disc, lastOp, atDisc, before, nSets, nDeletes, nSaves, nConnects>>

\* descriptors after rename(tempFile, dataFile): the temp file is now the
\* data file, the old data file is unlinked
renamedFd(fd) ==
    CASE fd = "tmp" -> "file"
      [] fd = "file" -> "gone"
      [] OTHER -> fd

\* fs.rename(tempFile, dataFile); ENOENT when the temp file is gone, and
\* then save() rejects (and with it the disconnect() that awaits it)
LSaveRename(i) ==
    /\ UNCHANGED <<lsubVars, composerVars, roomVars, restVars>>
    /\ i \in 1..Len(saves)
    /\ saves[i].pc = "written"
    /\ IF tmp.t = "absent"
       THEN /\ saves' = RemoveAt(saves, i)
            /\ disc' = IF saves[i].awaited THEN "rejected" ELSE disc
            /\ lastOp' = [op |-> "renameRejected", path |-> <<>>]
            /\ UNCHANGED <<file, tmp>>
       ELSE /\ file' = tmp
            /\ tmp' = Absent
            /\ saves' = [j \in 1..Len(saves) |->
                            IF j = i THEN [saves[j] EXCEPT !.pc = "renamed"]
                            ELSE [saves[j] EXCEPT !.fd = renamedFd(saves[j].fd)]]
            /\ UNCHANGED <<disc, lastOp>>
    /\ UNCHANGED <<data, isDirty, saveTimer, ready, atDisc, before, nSets, nDeletes, nSaves, nConnects>>

\* save() after the rename: `this.isDirty = false`; a disconnect() that
\* awaited it goes on to `this.ready = false`
LSaveDone(i) ==
    /\ UNCHANGED <<lsubVars, composerVars, roomVars, restVars>>
    /\ i \in 1..Len(saves)
    /\ saves[i].pc = "renamed"
    /\ isDirty' = FALSE
    /\ saves' = RemoveAt(saves, i)
    /\ IF saves[i].awaited
       THEN ready' = FALSE /\ disc' = "resolved"
       ELSE UNCHANGED <<ready, disc>>
    /\ UNCHANGED <<data, saveTimer, file, tmp, lastOp, atDisc, before, nSets, nDeletes, nSaves, nConnects>>

\* subscribe(path, callback): the base class registers the callback (its
\* startPolling is empty here), and a changeHandler of this subscription
\* is added to the 'change' listeners
LSubscribe(path, callback) ==
    /\ Len(lSubs) < MaxSubs
    /\ lSubscribers' = baseSubscribe(lSubscribers, path, callback)
    /\ lListeners' = Append(lListeners, Len(lSubs) + 1)
    /\ lSubs' = Append(lSubs, [path |-> path, cb |-> callback, active |-> TRUE])
    /\ UNCHANGED <<localVars, lCalls, composerVars, roomVars, restVars>>

\* the unsubscribe function returned by the i-th subscribe(), called for
\* the first time or again
LUnsubscribe(i) ==
    /\ i \in 1..Len(lSubs)
    /\ lSubscribers' = baseUnsubscribe(lSubscribers, lSubs[i].path, lSubs[i].cb).subscribers
    /\ lListeners' = LET Other(j) == j # i IN SelectSeq(lListeners, Other)
    /\ lSubs' = [lSubs EXCEPT ![i].active = FALSE]
    /\ UNCHANGED <<localVars, lCalls, composerVars, roomVars, restVars>>

-----------------------------------------------------------------------------
(* ComposerAdapter: one file per path key under the data directory *)

InitComposer ==
    /\ cData = <<>>
    /\ cFiles = <<>>
    /\ cOps = <<>>
    /\ cSubscribers = <<>>
    /\ cPolling = {}
    /\ cSubs = <<>>
    /\ cCalls = <<>>
    /\ cLast = NoOp
    /\ nCSets = 0
    /\ nCDeletes = 0

\* serializeFile for the '.yaml' files pathToFile names: yaml.dump
serializeFile(value) == [t |-> "yaml", v |-> value]

\* parseFile for a '.yaml' file: yaml.load
parseFile(content) == content.v

\* set(pathKey, value) up to its first await: the value is stored in memory
CSetStart(path, value) ==
    /\ nCSets < MaxSets
    /\ nCSets' = nCSets + 1
    /\ cData' = Put(cData, path, value)
    /\ cOps' = Append(cOps, [kind |-> "set", path |-> path, value |-> value])
    /\ cCalls' = <<>>
    /\ cLast' = NoOp
    /\ UNCHANGED <<cFiles, cSubscribers, cPolling, cSubs, nCDeletes>>
    /\ UNCHANGED <<localVars, lsubVars, roomVars, restVars>>

\* set(pathKey, value) once ensureDir and writeFile have completed: the
\* file holds the value, and the subscribers of the path are notified
CSetDone(i) ==
    /\ i \in 1..Len(cOps)
    /\ cOps[i].kind = "set"
    /\ cFiles' = Put(cFiles, cOps[i].path, serializeFile(cOps[i].value))
    /\ cCalls' = notifySubscribers(cSubscribers, cOps[i].path, cOps[i].value)
    /\ cOps' = RemoveAt(cOps, i)
    /\ cLast' = [op |-> "setDone", path |-> cOps[i].path]
    /\ UNCHANGED <<cData, cSubscribers, cPolling, cSubs, nCSets, nCDeletes>>
    /\ UNCHANGED <<localVars, lsubVars, roomVars, restVars>>

\* delete(path) up to its await: the key is deleted from memory
CDeleteStart(path) ==
    /\ nCDeletes < MaxDeletes
    /\ nCDeletes' = nCDeletes + 1
    /\ cData' = Without(cData, path)
    /\ cOps' = Append(cOps, [kind |-> "delete", path |-> path, value |-> Undefined])
    /\ cCalls' = <<>>
    /\ cLast' = NoOp
    /\ UNCHANGED <<cFiles, cSubscribers, cPolling, cSubs, nCSets>>
    /\ UNCHANGED <<localVars, lsubVars, roomVars, restVars>>

\* delete(path) once unlink has completed (a missing file is ignored); the
\* subscribers of the path are notified
CDeleteDone(i) ==
    /\ i \in 1..Len(cOps)
    /\ cOps[i].kind = "delete"
    /\ cFiles' = Without(cFiles, cOps[i].path)
    /\ cCalls' = notifySubscribers(cSubscribers, cOps[i].path, Undefined)
    /\ cOps' = RemoveAt(cOps, i)
    /\ cLast' = [op |-> "deleteDone", path |-> cOps[i].path]
    /\ UNCHANGED <<cData, cSubscribers, cPolling, cSubs, nCSets, nCDeletes>>
    /\ UNCHANGED <<localVars, lsubVars, roomVars, restVars>>

\* exists(path): the key is in memory, or its file can be accessed
cExists(path) == path \in DOMAIN cData \/ path \in DOMAIN cFiles

\* startPolling(path): one interval per path
startPolling(polling, path) == polling \cup {path}

\* stopPolling(path)
stopPolling(polling, path) == polling \ {path}

\* subscribe(path, callback)
CSubscribe(path, callback) ==
    /\ Len(cSubs) < MaxSubs
    /\ cSubscribers' = baseSubscribe(cSubscribers, path, callback)
    /\ cPolling' = startPolling(cPolling, path)
    /\ cSubs' = Append(cSubs, [path |-> path, cb |-> callback, active |-> TRUE])
    /\ cCalls' = <<>>
    /\ cLast' = NoOp
    /\ UNCHANGED <<cData, cFiles, cOps, nCSets, nCDeletes>>
    /\ UNCHANGED <<localVars, lsubVars, roomVars, restVars>>

\* the unsubscribe function returned by the i-th subscribe(), called for
\* the first time or again
CUnsubscribe(i) ==
    /\ i \in 1..Len(cSubs)
    /\ LET r == baseUnsubscribe(cSubscribers, cSubs[i].path, cSubs[i].cb)
       IN  /\ cSubscribers' = r.subscribers
           /\ cPolling' = IF r.stop THEN stopPolling(cPolling, cSubs[i].path)
                          ELSE cPolling
    /\ cSubs' = [cSubs EXCEPT ![i].active = FALSE]
    /\ cCalls' = <<>>
    /\ cLast' = NoOp
    /\ UNCHANGED <<cData, cFiles, cOps, nCSets, nCDeletes>>
    /\ UNCHANGED <<localVars, lsubVars, roomVars, restVars>>

\* the polling interval of a path fires: get(path), from memory or else
\* from the file (which is then kept in memory), and the subscribers of
\* the path are notified with it
CPollTick(path) ==
    /\ path \in cPolling
    /\ LET value == IF path \in DOMAIN cData THEN cData[path]
                    ELSE IF path \in DOMAIN cFiles THEN parseFile(cFiles[path])
                    ELSE Undefined
       IN  /\ cData' = IF value = Undefined THEN cData ELSE Put(cData, path, value)
           /\ cCalls' = notifySubscribers(cSubscribers, path, value)
    /\ cLast' = [op |-> "poll", path |-> path]
    /\ UNCHANGED <<cFiles, cOps, cSubscribers, cPolling, cSubs, nCSets, nCDeletes>>
    /\ UNCHANGED <<localVars, lsubVars, roomVars, restVars>>

-----------------------------------------------------------------------------
(* ComposerAdapter: the watcher of the data directory (watchFiles) *)

\* pathToFile(key): the '.yaml' file of a path key under the data directory
pathToFile(key) == key \o <<".yaml">>

\* the extensions fileToPath() strips
Extensions == {".yaml", ".yml", ".json", ".md"}

\* fileToPath(filePath): the path key of a file under the data directory
fileToPath(filePath) ==
    IF filePath # <<>> /\ filePath[Len(filePath)] \in Extensions
    THEN SubSeq(filePath, 1, Len(filePath) - 1)
    ELSE filePath

InitWatch ==
    /\ cEvents = <<>>
    /\ cReads = <<>>
    /\ nXChanges = 0

\* another process writes a value to the file of a path key: the watcher
\* will report 'add' for a new file and 'change' for an existing one
XWrite(path, value) ==
    /\ nXChanges < MaxXChanges
    /\ nXChanges' = nXChanges + 1
    /\ cFiles' = Put(cFiles, path, serializeFile(value))
    /\ cEvents' = Append(cEvents,
                         [kind |-> IF path \in DOMAIN cFiles THEN "change" ELSE "add",
                          file |-> pathToFile(path)])
    /\ cCalls' = <<>>
    /\ cLast' = [op |-> "external", path |-> path]
    /\ UNCHANGED <<cData, cOps, cSubscribers, cPolling, cSubs, nCSets, nCDeletes, cReads>>
    /\ UNCHANGED <<localVars, lsubVars, roomVars, typingVars, moreVars>>

\* another process removes the file of a path key: the watcher will
\* report 'unlink'
XRemove(path) ==
    /\ nXChanges < MaxXChanges
    /\ path \in DOMAIN cFiles
    /\ nXChanges' = nXChanges + 1
    /\ cFiles' = Without(cFiles, path)
    /\ cEvents' = Append(cEvents, [kind |-> "unlink", file |-> pathToFile(path)])
    /\ cCalls' = <<>>
    /\ cLast' = [op |-> "external", path |-> path]
    /\ UNCHANGED <<cData, cOps, cSubscribers, cPolling, cSubs, nCSets, nCDeletes, cReads>>
    /\ UNCHANGED <<localVars, lsubVars, roomVars, typingVars, moreVars>>

\* onFileRemoved(filePath): the key leaves the cache and its subscribers
\* are notified with undefined
onFileRemoved(filePath) ==
    LET key == fileToPath(filePath)
    IN  /\ cData' = Without(cData, key)
        /\ cCalls' = notifySubscribers(cSubscribers, key, Undefined)
        /\ cLast' = [op |-> "fileRemoved", path |-> key]
        /\ UNCHANGED cReads

\* onFileAdded(filePath) and onFileChanged(filePath), up to their await:
\* readFile is requested
onFileAddedOrChanged(filePath) ==
    /\ cReads' = Append(cReads, [file |-> filePath, pc |-> "reading",
                                 content |-> Absent])
    /\ cCalls' = <<>>
    /\ cLast' = NoOp
    /\ UNCHANGED cData

\* the watcher set up by setupWatchers() reports its next event to the
\* handler registered for it
WatchEvent ==
    /\ cEvents # <<>>
    /\ cEvents' = Tail(cEvents)
    /\ IF Head(cEvents).kind = "unlink"
       THEN onFileRemoved(Head(cEvents).file)
       ELSE onFileAddedOrChanged(Head(cEvents).file)
    /\ UNCHANGED <<cFiles, cOps, cSubscribers, cPolling, cSubs, nCSets, nCDeletes,
                   nXChanges>>
    /\ UNCHANGED <<localVars, lsubVars, roomVars, typingVars, moreVars>>

\* readFile of a handler reads the file as it is now; when the file is
\* gone it rejects, and so does the handler, which nobody awaits
WatchRead(i) ==
    /\ i \in 1..Len(cReads)
    /\ cReads[i].pc = "reading"
    /\ LET key == fileToPath(cReads[i].file)
       IN  cReads' = IF key \in DOMAIN cFiles
                     THEN [cReads EXCEPT ![i].pc = "read", ![i].content = cFiles[key]]
                     ELSE RemoveAt(cReads, i)
    /\ cCalls' = <<>>
    /\ cLast' = NoOp
    /\ UNCHANGED <<cData, cFiles, cOps, cSubscribers, cPolling, cSubs, nCSets,
                   nCDeletes, cEvents, nXChanges>>
    /\ UNCHANGED <<localVars, lsubVars, roomVars, typingVars, moreVars>>

\* onFileAdded/onFileChanged after readFile: the parsed content is put in
\* the cache and the subscribers of the key are notified with it
WatchDone(i) ==
    /\ i \in 1..Len(cReads)
    /\ cReads[i].pc = "read"
    /\ LET key == fileToPath(cReads[i].file)
           value == parseFile(cReads[i].content)
       IN  /\ cData' = Put(cData, key, value)
           /\ cCalls' = notifySubscribers(cSubscribers, key, value)
           /\ cLast' = [op |-> "fileRead", path |-> key]
    /\ cReads' = RemoveAt(cReads, i)
    /\ UNCHANGED <<cFiles, cOps, cSubscribers, cPolling, cSubs, nCSets, nCDeletes,
                   cEvents, nXChanges>>
    /\ UNCHANGED <<localVars, lsubVars, roomVars, typingVars, moreVars>>

-----------------------------------------------------------------------------
(* WorkroomsService: one service instance per user over the shared store *)

\* the users, each the currentUser of their own WorkroomsService
Users == {"u1", "u2"}

\* the users who call createRoom() on their running service
Creators == {"u1"}

\* the rooms initializeDefaultRooms() seeds, one createRoom call each
DefaultRooms == 1..MaxDefaultRooms

\* the ids uuid() hands out for rooms: every service seeds its default
\* rooms, and createRoom() calls add theirs
RoomIds == 1..(Cardinality(Users) * MaxDefaultRooms + MaxCreates)

\* the ids uuid() hands out for messages
MessageIds == 1..MaxCalls

\* Date.now() readings
Times == 1..MaxTime

\* uuid(): an id no room has yet
uuidRoom == Cardinality(DOMAIN sRooms) + 1

\* uuid(): an id no message has yet
uuidMessage == Cardinality(DOMAIN sMsgs) + 1

\* the Workroom object built by createRoom()
newRoom(id, user, t) ==
    [id |-> id, members |-> <<user>>, lastActivity |-> t, messageCount |-> 0]

\* the WorkroomMessage object built by sendMessage()
newMessage(id, roomId, user, t) ==
    [id |-> id, roomId |-> roomId, from |-> user, timestamp |-> t]

\* room.members.includes(this.currentUser.id)
includes(members, user) == \E i \in 1..Len(members) : members[i] = user

\* room.members.filter(id => id !== this.currentUser.id)
filterOut(members, user) ==
    LET Other(id) == id # user IN SelectSeq(members, Other)

\* a membership test that lets every user through
notAMemberNever(room, user) == FALSE

\* sendMessage()'s membership test, negated: the call is refused
notAMember(room, user) == ~includes(room.members, user)

\* roomMessages.findIndex(m => m.id === msgId), 0 for -1
findIndex(roomMessages, msgId) ==
    IF \E i \in 1..Len(roomMessages) : roomMessages[i].id = msgId
    THEN CHOOSE i \in 1..Len(roomMessages) :
            /\ roomMessages[i].id = msgId
            /\ \A j \in 1..(i - 1) : roomMessages[j].id # msgId
    ELSE 0

\* one message put in its place in a list sorted by timestamp, behind the
\* entries with the same timestamp
RECURSIVE insertSorted(_, _)
insertSorted(sorted, m) ==
    IF sorted = <<>> THEN <<m>>
    ELSE IF Head(sorted).timestamp <= m.timestamp
         THEN <<Head(sorted)>> \o insertSorted(Tail(sorted), m)
         ELSE <<m>> \o sorted

\* roomMessages.sort((a, b) => a.timestamp - b.timestamp): a stable sort of
\* the whole array
RECURSIVE sortByTimestamp(_)
sortByTimestamp(roomMessages) ==
    IF roomMessages = <<>> THEN <<>>
    ELSE insertSorted(sortByTimestamp(SubSeq(roomMessages, 1, Len(roomMessages) - 1)),
                      roomMessages[Len(roomMessages)])

\* the handler of a message delivered for a room: a known id overwrites its
\* entry where it stands, a new id is pushed and the array sorted
onMessage(roomMessages, message, msgId) ==
    LET existingIndex == findIndex(roomMessages, msgId)
    IN  IF existingIndex >= 1
        THEN [roomMessages EXCEPT ![existingIndex] = message]
        ELSE sortByTimestamp(Append(roomMessages, message))

\* getRoomMessages(roomId) of a user's service, without a limit
getRoomMessages(user, roomId) ==
    IF roomId \in DOMAIN wMessages[user] THEN wMessages[user][roomId] ELSE <<>>

\* f with key k set to v (Map.prototype.set)
MapPut(f, k, v) == [x \in DOMAIN f \cup {k} |-> IF x = k THEN v ELSE f[x]]

\* the in-flight sendMessage() calls of a user on a room let go of the room
\* object they hold when this.rooms gets another object for the room: they
\* keep the object as it was, and it is no longer the one in this.rooms
detach(ops, user, roomId, old) ==
    {IF op.kind = "send" /\ op.user = user /\ op.room = roomId /\ op.live
     THEN [op EXCEPT !.obj = old, !.live = FALSE]
     ELSE op : op \in ops}

\* no message: the `msg` of a createRoom() call in flight
NoMessage == [id |-> 0, roomId |-> 0, from |-> "", timestamp |-> 0]

NoSend == [user |-> "", room |-> 0, result |-> "none"]

InitRooms ==
    /\ wUp = {}
    /\ sRooms = <<>>
    /\ sMsgs = <<>>
    /\ wRooms = [u \in Users |-> <<>>]
    /\ wMessages = [u \in Users |-> <<>>]
    /\ wMsgSubs = [u \in Users |-> {}]
    /\ wOps = {}
    /\ wSend = NoSend
    /\ wSent = {}
    /\ wCreated = {}
    /\ now = 1
    /\ nCalls = 0
    /\ nPeerPuts = 0

\* the createRoom() call in flight for room id of user: the room has been
\* put to the store and the call waits for the store
createOp(user, id, room, seeded) ==
    [kind |-> "create", user |-> user, room |-> id, obj |-> room,
     live |-> FALSE, msg |-> NoMessage, seeded |-> seeded]

\* new WorkroomsService(airClient, user): initializeDefaultRooms() starts
\* one createRoom() per default room, each putting its room to the store
\* and stopping at its first await; subscribeToAir() then registers the
\* rooms handler and one message handler per room in this.rooms.  At that
\* point this.rooms holds what the store has handed to the rooms handler
\* at registration: any of the rooms the store holds (synced), or none.
WConstruct(user, synced) ==
    LET ids == [n \in DefaultRooms |-> uuidRoom + n - 1]
        seeded == [i \in {ids[n] : n \in DefaultRooms} |-> newRoom(i, user, now)]
        store == [i \in DOMAIN sRooms \cup DOMAIN seeded |->
                    IF i \in DOMAIN seeded THEN seeded[i] ELSE sRooms[i]]
    IN  /\ user \notin wUp
        /\ synced \subseteq DOMAIN store
        /\ wUp' = wUp \cup {user}
        /\ sRooms' = store
        /\ wOps' = wOps \cup {createOp(user, ids[n], seeded[ids[n]], TRUE) :
                                n \in DefaultRooms}
        /\ wRooms' = [wRooms EXCEPT ![user] = [i \in synced |-> store[i]]]
        /\ wMsgSubs' = [wMsgSubs EXCEPT ![user] = synced]
        /\ UNCHANGED <<sMsgs, wMessages, wSent, wCreated, now, nCalls, nPeerPuts>>
        /\ wSend' = NoSend
    /\ UNCHANGED <<localVars, lsubVars, composerVars, restVars>>

\* createRoom(options) called on a running service, up to its first await
WCreateRoom(user) ==
    LET room == newRoom(uuidRoom, user, now)
    IN  /\ user \in wUp
        /\ user \in Creators
        /\ Cardinality(wCreated \cup {op.room : op \in {o \in wOps : ~o.seeded /\ o.kind = "create"}})
              < MaxCreates
        /\ UNCHANGED nCalls
        /\ sRooms' = MapPut(sRooms, room.id, room)
        /\ wOps' = wOps \cup {createOp(user, room.id, room, FALSE)}
        /\ UNCHANGED <<wUp, sMsgs, wRooms, wMessages, wMsgSubs, wSent,
                       wCreated, now, nPeerPuts>>
        /\ wSend' = NoSend
        /\ UNCHANGED <<localVars, lsubVars, composerVars, restVars>>

\* createRoom() after the store has taken the room: this.rooms and
\* this.messages get their entries, and joinRoom(room.id) finds the creator
\* among the members already
WCreateRoomDone(roomId) ==
    /\ \E o \in wOps : o.kind = "create" /\ o.room = roomId
    /\ LET op == CHOOSE o \in wOps : o.kind = "create" /\ o.room = roomId
           old == IF op.room \in DOMAIN wRooms[op.user]
                  THEN wRooms[op.user][op.room] ELSE op.obj
       IN  /\ wRooms' = [wRooms EXCEPT ![op.user] = MapPut(@, op.room, op.obj)]
           /\ wMessages' = [wMessages EXCEPT ![op.user] = MapPut(@, op.room, <<>>)]
           /\ wOps' = detach(wOps \ {op}, op.user, op.room, old)
           /\ wCreated' = IF op.seeded THEN wCreated ELSE wCreated \cup {op.room}
    /\ UNCHANGED <<wUp, sRooms, sMsgs, wMsgSubs, wSent, now, nCalls, nPeerPuts>>
    /\ wSend' = NoSend
    /\ UNCHANGED <<localVars, lsubVars, composerVars, restVars>>

\* joinRoom(roomId): an unknown room is refused; a user not yet among the
\* members is pushed onto the room object in this.rooms and the room put
WJoinRoom(user, roomId) ==
    /\ user \in wUp
    /\ nCalls < MaxCalls
    /\ IF roomId \notin DOMAIN wRooms[user]
       THEN UNCHANGED <<wRooms, sRooms, nCalls>>
       ELSE LET room == wRooms[user][roomId]
                joined == [room EXCEPT !.members = Append(@, user)]
            IN  /\ nCalls' = nCalls + 1
                /\ IF includes(room.members, user)
                   THEN UNCHANGED <<wRooms, sRooms>>
                   ELSE /\ wRooms' = [wRooms EXCEPT ![user][roomId] = joined]
                        /\ sRooms' = MapPut(sRooms, roomId, joined)
    /\ UNCHANGED <<wUp, sMsgs, wMessages, wMsgSubs, wOps, wSent, wCreated,
                   now, nPeerPuts>>
    /\ wSend' = NoSend
    /\ UNCHANGED <<localVars, lsubVars, composerVars, restVars>>

\* leaveRoom(roomId): nothing for an unknown room; else the user is
\* filtered out of the members of the room object and the room put
WLeaveRoom(user, roomId) ==
    /\ user \in wUp
    /\ nCalls < MaxCalls
    /\ IF roomId \notin DOMAIN wRooms[user]
       THEN UNCHANGED <<wRooms, sRooms, nCalls>>
       ELSE LET room == wRooms[user][roomId]
                left == [room EXCEPT !.members = filterOut(@, user)]
            IN  /\ nCalls' = nCalls + 1
                /\ wRooms' = [wRooms EXCEPT ![user][roomId] = left]
                /\ sRooms' = MapPut(sRooms, roomId, left)
    /\ UNCHANGED <<wUp, sMsgs, wMessages, wMsgSubs, wOps, wSent, wCreated,
                   now, nPeerPuts>>
    /\ wSend' = NoSend
    /\ UNCHANGED <<localVars, lsubVars, composerVars, restVars>>

\* sendMessage(roomId, content), up to its first await: refused for an
\* unknown room and for a user who is not a member; else the message is
\* built and put to the store
WSendMessage(user, roomId) ==
    /\ user \in wUp
    /\ nCalls < MaxCalls
    /\ IF roomId \notin DOMAIN wRooms[user]
       THEN /\ wSend' = [user |-> user, room |-> roomId, result |-> "RoomNotFound"]
            /\ UNCHANGED <<sMsgs, wOps, nCalls>>
       ELSE IF notAMember(wRooms[user][roomId], user)
       THEN /\ wSend' = [user |-> user, room |-> roomId, result |-> "NotAMember"]
            /\ UNCHANGED <<sMsgs, wOps, nCalls>>
       ELSE LET message == newMessage(uuidMessage, roomId, user, now)
            IN  /\ nCalls' = nCalls + 1
                /\ wSend' = [user |-> user, room |-> roomId, result |-> "put"]
                /\ sMsgs' = MapPut(sMsgs, message.id, message)
                /\ wOps' = wOps \cup {[kind |-> "send", user |-> user,
                                        room |-> roomId,
                                        obj |-> wRooms[user][roomId],
                                        live |-> TRUE, msg |-> message,
                                        seeded |-> FALSE]}
    /\ UNCHANGED <<wUp, sRooms, wRooms, wMessages, wMsgSubs, wSent, wCreated, now, nPeerPuts>>
    /\ UNCHANGED <<localVars, lsubVars, composerVars, restVars>>

\* sendMessage() after the store has taken the message: lastActivity and
\* messageCount of the room object the call holds are updated and the room
\* put; the call then returns the message
WSendMessageDone(msgId) ==
    /\ \E o \in wOps : o.kind = "send" /\ o.msg.id = msgId
    /\ LET op == CHOOSE o \in wOps : o.kind = "send" /\ o.msg.id = msgId
           room == IF op.live THEN wRooms[op.user][op.room] ELSE op.obj
           updated == [room EXCEPT !.lastActivity = now,
                                   !.messageCount = @ + 1]
       IN  /\ sRooms' = MapPut(sRooms, op.room, updated)
           /\ wRooms' = IF op.live
                        THEN [wRooms EXCEPT ![op.user][op.room] = updated]
                        ELSE wRooms
           /\ wSent' = wSent \cup {op.msg}
           /\ wOps' = wOps \ {op}
    /\ UNCHANGED <<wUp, sMsgs, wMessages, wMsgSubs, wCreated, now, nCalls, nPeerPuts>>
    /\ wSend' = NoSend
    /\ UNCHANGED <<localVars, lsubVars, composerVars, restVars>>

\* the rooms handler of a user's service, called by the store with a room
WDeliverRoom(user, roomId) ==
    /\ user \in wUp
    /\ roomId \in DOMAIN sRooms
    /\ wRooms' = [wRooms EXCEPT ![user] = MapPut(@, roomId, sRooms[roomId])]
    /\ wOps' = IF roomId \in DOMAIN wRooms[user]
               THEN detach(wOps, user, roomId, wRooms[user][roomId])
               ELSE wOps
    /\ UNCHANGED <<wUp, sRooms, sMsgs, wMessages, wMsgSubs, wSent, wCreated,
                   now, nCalls, nPeerPuts>>
    /\ wSend' = NoSend
    /\ UNCHANGED <<localVars, lsubVars, composerVars, restVars>>

\* the message handler a user's service registered for a room, called by
\* the store with a message of that room
WDeliverMessage(user, msgId) ==
    /\ msgId \in DOMAIN sMsgs
    /\ sMsgs[msgId].roomId \in wMsgSubs[user]
    /\ LET message == sMsgs[msgId]
       IN  wMessages' = [wMessages EXCEPT ![user] =
               MapPut(@, message.roomId,
                      onMessage(getRoomMessages(user, message.roomId), message, msgId))]
    /\ UNCHANGED <<wUp, sRooms, sMsgs, wRooms, wMsgSubs, wOps, wSent, wCreated,
                   now, nCalls, nPeerPuts>>
    /\ wSend' = NoSend
    /\ UNCHANGED <<localVars, lsubVars, composerVars, restVars>>

\* another peer of the store puts a message again under its id, with a
\* timestamp of its own
WPeerPut(msgId, t) ==
    /\ msgId \in DOMAIN sMsgs
    /\ nPeerPuts < MaxPeerPuts
    /\ t # sMsgs[msgId].timestamp
    /\ nPeerPuts' = nPeerPuts + 1
    /\ sMsgs' = [sMsgs EXCEPT ![msgId].timestamp = t]
    /\ UNCHANGED <<wUp, sRooms, wRooms, wMessages, wMsgSubs, wOps, wSent,
                   wCreated, now, nCalls>>
    /\ wSend' = NoSend
    /\ UNCHANGED <<localVars, lsubVars, composerVars, restVars>>

\* time passes: Date.now() moves on
WTick ==
    /\ now < MaxTime
    /\ now' = now + 1
    /\ UNCHANGED <<wUp, sRooms, sMsgs, wRooms, wMessages, wMsgSubs, wOps, wSent, wCreated, nCalls, nPeerPuts>>
    /\ wSend' = NoSend
    /\ UNCHANGED <<localVars, lsubVars, composerVars, restVars>>

-----------------------------------------------------------------------------
(* WorkroomsService: typing indicators *)

\* the (user, room) pairs a typing value is kept for in the store
TypingKeys == Users \X RoomIds

\* a timestamp that is never 0, whatever `typing` is
typingTimestampStuck(typing, t) == t

\* setTyping()'s `typing ? Date.now() : 0`
typingTimestamp(typing, t) == IF typing THEN t ELSE 0

NoTyping == [op |-> "none", user |-> "", room |-> 0, typing |-> FALSE, was |-> 0]

InitTyping ==
    /\ sTyping = [k \in TypingKeys |-> 0]
    /\ tOps = [k \in TypingKeys |-> 0]
    /\ tTimers = [k \in TypingKeys |-> 0]
    /\ tLast = NoTyping
    /\ nTypingCalls = 0

\* setTyping(roomId, typing) called on a user's service, up to its await:
\* the timestamp is put to the store; setTyping(roomId, false) has nothing
\* left to do after the await
TSetTyping(user, roomId, typing) ==
    /\ nTypingCalls < MaxTypingCalls
    /\ nTypingCalls' = nTypingCalls + 1
    /\ sTyping' = [sTyping EXCEPT ![<<user, roomId>>] = typingTimestamp(typing, now)]
    /\ tOps' = IF typing THEN [tOps EXCEPT ![<<user, roomId>>] = @ + 1] ELSE tOps
    /\ tLast' = [op |-> "call", user |-> user, room |-> roomId, typing |-> typing,
                 was |-> sTyping[<<user, roomId>>]]
    /\ UNCHANGED tTimers
    /\ UNCHANGED <<localVars, lsubVars, composerVars, roomVars, watchVars, moreVars>>

\* setTyping(roomId, true) after the store has taken the timestamp:
\* setTimeout(() => this.setTyping(roomId, false), 3000)
TSetTypingDone(user, roomId) ==
    /\ tOps[<<user, roomId>>] > 0
    /\ tOps' = [tOps EXCEPT ![<<user, roomId>>] = @ - 1]
    /\ tTimers' = [tTimers EXCEPT ![<<user, roomId>>] = @ + 1]
    /\ tLast' = NoTyping
    /\ UNCHANGED <<sTyping, nTypingCalls>>
    /\ UNCHANGED <<localVars, lsubVars, composerVars, roomVars, watchVars, moreVars>>

\* a timer set by setTyping(roomId, true) fires after its delay and calls
\* setTyping(roomId, false), which puts 0 to the store
TTimerFires(user, roomId) ==
    /\ tTimers[<<user, roomId>>] > 0
    /\ tTimers' = [tTimers EXCEPT ![<<user, roomId>>] = @ - 1]
    /\ sTyping' = [sTyping EXCEPT ![<<user, roomId>>] = typingTimestamp(FALSE, now)]
    /\ tLast' = [op |-> "timer", user |-> user, room |-> roomId, typing |-> FALSE,
                 was |-> sTyping[<<user, roomId>>]]
    /\ UNCHANGED <<tOps, nTypingCalls>>
    /\ UNCHANGED <<localVars, lsubVars, composerVars, roomVars, watchVars, moreVars>>

-----------------------------------------------------------------------------
(* AdapterRegistry: the process-wide Map of adapters and its primary.      *)
(* An adapter is known to the registry by its name only; the model keeps   *)
(* of each adapter what connect(), isConnected() and health() touch.       *)

\* the names of the adapter classes, and "other" for any further
\* implementation of the MemoryAdapter interface
AdapterNames == {"local", "composer", "air", "other"}

\* primaryAdapter: string | null = null
Null == "null"

\* Map.has(name)
has(names, name) == \E i \in 1..Len(names) : names[i] = name

\* Map.set(name, adapter): a new key goes to the end, a known key keeps
\* its place
MapSetKey(names, name) == IF has(names, name) THEN names ELSE Append(names, name)

\* register() choosing the primary: the adapter being registered takes the
\* place of the primary whatever it was
registerPrimaryAlways(primary, name) == name

\* register(): `if (!this.primaryAdapter) this.primaryAdapter = adapter.name`
registerPrimary(primary, name) == IF primary = Null THEN name ELSE primary

\* setPrimary() without its has() test
setPrimaryUnchecked(names, primary, name) == [threw |-> FALSE, primary |-> name]

\* setPrimary(name): the new primary, or the Error thrown
setPrimary(names, primary, name) ==
    IF has(names, name)
    THEN [threw |-> FALSE, primary |-> name]
    ELSE [threw |-> TRUE, primary |-> primary]

\* getPrimary(): the name of the adapter returned, Null for undefined
getPrimary(names, primary) ==
    IF primary # Null /\ has(names, primary) THEN primary ELSE Null

\* connect() of an adapter, from its flag and the state of its backend:
\* whether the promise is fulfilled, and the flag afterwards.  LocalAdapter
\* and ComposerAdapter set ready on success and leave it alone when mkdir
\* or load() throws; AirAdapter sets connected on success and clears it in
\* its catch block before throwing again; the other implementation is
\* taken to clear its flag too.
connect(name, flag, up) ==
    IF up THEN [ok |-> TRUE, flag |-> TRUE]
    ELSE [ok |-> FALSE, flag |-> IF name \in {"local", "composer"} THEN flag ELSE FALSE]

\* health() of an adapter, from its flag and the state of its backend: the
\* status returned, or "throws".  LocalAdapter probes its Map and catches
\* the error of fs.stat; ComposerAdapter writes a file and catches;
\* AirAdapter answers 'unhealthy' when not connected and catches a failed
\* probe as 'degraded'; the other implementation throws when its backend
\* cannot be reached.
health(name, flag, up) ==
    CASE name = "local" -> "healthy"
      [] name = "composer" -> IF up THEN "healthy" ELSE "unhealthy"
      [] name = "air" -> IF ~flag THEN "unhealthy"
                         ELSE IF up THEN "healthy" ELSE "degraded"
      [] OTHER -> IF up THEN "healthy" ELSE "throws"

\* healthCheck(): the entry of one adapter, with its try/catch
healthEntry(name, flag, up) ==
    LET h == health(name, flag, up)
    IN  IF h = "throws" THEN "unhealthy" ELSE h

NoRegistryOp == [op |-> "none", name |-> "", threw |-> FALSE]

InitRegistry ==
    /\ adapters = <<>>
    /\ primaryAdapter = Null
    /\ aFlag = [n \in AdapterNames |-> FALSE]
    /\ aUp = [n \in AdapterNames |-> TRUE]
    /\ conn = [n \in AdapterNames |-> "none"]
    /\ connAll = "idle"
    /\ hcPos = 0
    /\ hcResults = <<>>
    /\ rLast = NoRegistryOp
    /\ nRegistryCalls = 0
    /\ nBackend = 0

\* AdapterRegistry.register(adapter)
RRegister(name) ==
    /\ nRegistryCalls < MaxRegistryCalls
    /\ nRegistryCalls' = nRegistryCalls + 1
    /\ adapters' = MapSetKey(adapters, name)
    /\ primaryAdapter' = registerPrimary(primaryAdapter, name)
    /\ rLast' = [op |-> "register", name |-> name, threw |-> FALSE]
    /\ UNCHANGED <<aFlag, aUp, conn, connAll, hcPos, hcResults, nBackend>>
    /\ UNCHANGED notRegistry

\* AdapterRegistry.setPrimary(name)
RSetPrimary(name) ==
    /\ nRegistryCalls < MaxRegistryCalls
    /\ nRegistryCalls' = nRegistryCalls + 1
    /\ LET r == setPrimary(adapters, primaryAdapter, name)
       IN  /\ primaryAdapter' = r.primary
           /\ rLast' = [op |-> "setPrimary", name |-> name, threw |-> r.threw]
    /\ UNCHANGED <<adapters, aFlag, aUp, conn, connAll, hcPos, hcResults, nBackend>>
    /\ UNCHANGED notRegistry

\* AdapterRegistry.connectAll(), up to `await Promise.all(promises)`:
\* connect() is called on every adapter of the Map
RConnectAll ==
    /\ connAll # "waiting"
    /\ nRegistryCalls < MaxRegistryCalls
    /\ nRegistryCalls' = nRegistryCalls + 1
    /\ conn' = [n \in AdapterNames |-> IF has(adapters, n) THEN "pending" ELSE "none"]
    /\ connAll' = "waiting"
    /\ rLast' = [op |-> "connectAll", name |-> "", threw |-> FALSE]
    /\ UNCHANGED <<adapters, primaryAdapter, aFlag, aUp, hcPos, hcResults, nBackend>>
    /\ UNCHANGED notRegistry

\* the connect() of one adapter settles; a rejection is caught and logged
RConnectSettles(name) ==
    /\ conn[name] = "pending"
    /\ LET r == connect(name, aFlag[name], aUp[name])
       IN  /\ aFlag' = [aFlag EXCEPT ![name] = r.flag]
           /\ conn' = [conn EXCEPT ![name] = IF r.ok THEN "connected" ELSE "failed"]
    /\ rLast' = NoRegistryOp
    /\ UNCHANGED <<adapters, primaryAdapter, aUp, connAll, hcPos, hcResults, nRegistryCalls, nBackend>>
    /\ UNCHANGED notRegistry

\* Promise.all(promises) is fulfilled: connectAll() resolves
RConnectAllDone ==
    /\ connAll = "waiting"
    /\ \A n \in AdapterNames : conn[n] # "pending"
    /\ connAll' = "resolved"
    /\ rLast' = [op |-> "connectAllDone", name |-> "", threw |-> FALSE]
    /\ UNCHANGED <<adapters, primaryAdapter, aFlag, aUp, conn, hcPos, hcResults,
                   nRegistryCalls, nBackend>>
    /\ UNCHANGED notRegistry

\* AdapterRegistry.healthCheck(), up to its first await: results = {} and
\* the iteration of the Map starts
RHealthCheck ==
    /\ hcPos = 0
    /\ nRegistryCalls < MaxRegistryCalls
    /\ nRegistryCalls' = nRegistryCalls + 1
    /\ hcPos' = 1
    /\ hcResults' = <<>>
    /\ rLast' = [op |-> "healthCheck", name |-> "", threw |-> FALSE]
    /\ UNCHANGED <<adapters, primaryAdapter, aFlag, aUp, conn, connAll, nBackend>>
    /\ UNCHANGED notRegistry

\* the health() of the adapter the iteration is at settles, and its entry
\* is written; each entry keeps what the adapter's backend and flag were
\* at that moment (history)
RHealthSettles ==
    /\ hcPos > 0
    /\ hcPos <= Len(adapters)
    /\ LET name == adapters[hcPos]
       IN  hcResults' = Append(hcResults,
                               [name |-> name,
                                status |-> healthEntry(name, aFlag[name], aUp[name]),
                                flag |-> aFlag[name],
                                up |-> aUp[name]])
    /\ hcPos' = hcPos + 1
    /\ rLast' = NoRegistryOp
    /\ UNCHANGED <<adapters, primaryAdapter, aFlag, aUp, conn, connAll, nRegistryCalls, nBackend>>
    /\ UNCHANGED notRegistry

\* the iteration is over: healthCheck() returns results
RHealthCheckDone ==
    /\ hcPos > Len(adapters)
    /\ hcPos' = 0
    /\ rLast' = [op |-> "healthCheckDone", name |-> "", threw |-> FALSE]
    /\ UNCHANGED <<adapters, primaryAdapter, aFlag, aUp, conn, connAll, hcResults,
                   nRegistryCalls, nBackend>>
    /\ UNCHANGED notRegistry

\* the backend of an adapter becomes unreachable (the data directory is
\* taken away, the peer goes down) or reachable again
RBackend(name) ==
    /\ nBackend < MaxBackend
    /\ nBackend' = nBackend + 1
    /\ aUp' = [aUp EXCEPT ![name] = ~@]
    /\ rLast' = NoRegistryOp
    /\ UNCHANGED <<adapters, primaryAdapter, aFlag, conn, connAll, hcPos, hcResults,
                   nRegistryCalls>>
    /\ UNCHANGED notRegistry

-----------------------------------------------------------------------------
(* publish(channel, message) of the LocalAdapter and the ComposerAdapter.  *)
(* The history of a channel is an array kept under the channel's path;     *)
(* get() hands out the array itself, so the arrays are modelled as objects *)
(* of a heap: pArrays[id] is the content of array id.                      *)

PubAdapters == {"local", "composer"}

Channels == {"c1", "c2"}

PubKeys == PubAdapters \X Channels

\* the messages published, numbered in the order of the publish() calls
PubMessages == 1..MaxPublishes

\* `if (messages.length > 100)` / `if (messages.length > 1000)`
cap(adapter) == IF adapter = "local" THEN LocalCap ELSE ComposerCap

\* messages.splice(0, messages.length - cap): the last `c` entries stay
splice(messages, c) ==
    IF Len(messages) > c
    THEN SubSeq(messages, Len(messages) - c + 1, Len(messages))
    ELSE messages

\* publish() when the await of get() returns, with `messages` the array
\* get() handed out or, for undefined, a new []: the array after push and
\* splice
publishPush(messages, msg, c) == splice(Append(messages, msg), c)

InitPublish ==
    /\ pArrays = <<>>
    /\ pStore = [k \in PubKeys |-> 0]
    /\ pOps = {}
    /\ pPublished = [k \in PubKeys |-> <<>>]
    /\ nPublishes = 0

\* publish(channel, message) up to `await this.get(channelPath)`: get()
\* looks the path up at once (LocalAdapter: the Map; ComposerAdapter: the
\* cache, and for a path not cached a file that does not exist), so the
\* call holds the array stored now, or undefined (0)
PPublish(adapter, channel) ==
    /\ nPublishes < MaxPublishes
    /\ nPublishes' = nPublishes + 1
    /\ pOps' = pOps \cup {[key |-> <<adapter, channel>>, msg |-> nPublishes + 1,
                           ref |-> pStore[<<adapter, channel>>]]}
    /\ pPublished' = [pPublished EXCEPT ![<<adapter, channel>>] =
                            Append(@, nPublishes + 1)]
    /\ UNCHANGED <<pArrays, pStore>>
    /\ UNCHANGED notPublish

\* whether the publish() call op may be the next one to go on: the calls
\* of a LocalAdapter go on in the order they were made (each waits for one
\* resolved promise); so do the calls of a ComposerAdapter that found the
\* path in the cache, while a call that reads the file waits for the disk
mayResume(op) ==
    \A o \in pOps :
        (o.key[1] = op.key[1] /\ o.msg < op.msg)
            => (op.key[1] = "composer" /\ (op.ref = 0 \/ o.ref = 0))

\* publish() after the await: push, splice, and set(channelPath, messages),
\* which puts the array under the path at once
PPublishDone(msg) ==
    /\ \E op \in pOps : op.msg = msg
    /\ LET op == CHOOSE o \in pOps : o.msg = msg
           id == IF op.ref = 0 THEN Len(pArrays) + 1 ELSE op.ref
           messages == IF op.ref = 0 THEN <<>> ELSE pArrays[op.ref]
           pushed == publishPush(messages, op.msg, cap(op.key[1]))
       IN  /\ mayResume(op)
           /\ pArrays' = IF op.ref = 0
                         THEN Append(pArrays, pushed)
                         ELSE [pArrays EXCEPT ![id] = pushed]
           /\ pStore' = [pStore EXCEPT ![op.key] = id]
           /\ pOps' = pOps \ {op}
    /\ UNCHANGED <<pPublished, nPublishes>>
    /\ UNCHANGED notPublish

-----------------------------------------------------------------------------
(* BaseMemoryAdapter.batch(operations), run on a ComposerAdapter, whose    *)
(* set() rejects when the file cannot be written.                          *)

\* the operations a batch is made of
BatchOperation ==
    [type : {"set"}, path : ComposerPaths, value : ComposerValues]
        \cup [type : {"delete"}, path : ComposerPaths, value : {Undefined}]

\* the lists of operations given to batch()
BatchLists == UNION {[1..n -> BatchOperation] : n \in 0..MaxBatchLen}

\* set()/delete() up to the await: what the operation does to the cache
opStart(cache, op) ==
    IF op.type = "set" THEN Put(cache, op.path, op.value) ELSE Without(cache, op.path)

\* set()/delete() after the await: what the operation has done to the files
opDone(files, op) ==
    IF op.type = "set" THEN Put(files, op.path, serializeFile(op.value))
    ELSE Without(files, op.path)

\* a loop that goes on to the next operation whether or not this one failed
batchAfterSwallowed(ok, pos, len) ==
    IF pos = len THEN "resolved" ELSE "awaiting"

\* the `for` loop of batch() when the await of operation pos returns:
\* a rejection leaves the loop and rejects batch(), the last operation
\* resolves it, any other goes on to the next operation
batchAfter(ok, pos, len) ==
    IF ~ok THEN "rejected"
    ELSE IF pos = len THEN "resolved" ELSE "awaiting"

InitBatch ==
    /\ bData = <<>>
    /\ bFiles = <<>>
    /\ bOps = <<>>
    /\ bPos = 0
    /\ bStage = "idle"
    /\ bFailed = {}
    /\ bBefore = [cache |-> <<>>, files |-> <<>>]
    /\ nBatches = 0

\* batch(operations) up to its first await: the first operation is called
BBatch(operations) ==
    /\ bStage # "awaiting"
    /\ nBatches < MaxBatches
    /\ nBatches' = nBatches + 1
    /\ bOps' = operations
    /\ bFailed' = {}
    /\ bBefore' = [cache |-> bData, files |-> bFiles]
    /\ IF operations = <<>>
       THEN /\ bStage' = "resolved"
            /\ bPos' = 0
            /\ UNCHANGED bData
       ELSE /\ bStage' = "awaiting"
            /\ bPos' = 1
            /\ bData' = opStart(bData, operations[1])
    /\ UNCHANGED bFiles
    /\ UNCHANGED notBatch

\* the set() or delete() batch() awaits settles: fulfilled (the file is
\* written or unlinked) or, for a set() whose ensureDir or writeFile fails,
\* rejected; delete() catches the error of unlink.  The loop then calls the
\* next operation, or batch() settles.
BOpSettles(ok) ==
    /\ bStage = "awaiting"
    /\ ok \/ bOps[bPos].type = "set"
    /\ bFiles' = IF ok THEN opDone(bFiles, bOps[bPos]) ELSE bFiles
    /\ bFailed' = IF ok THEN bFailed ELSE bFailed \cup {bPos}
    /\ bStage' = batchAfter(ok, bPos, Len(bOps))
    /\ IF bStage' = "awaiting"
       THEN /\ bPos' = bPos + 1
            /\ bData' = opStart(bData, bOps[bPos + 1])
       ELSE UNCHANGED <<bPos, bData>>
    /\ UNCHANGED <<bOps, bBefore, nBatches>>
    /\ UNCHANGED notBatch

-----------------------------------------------------------------------------
(* get(path) and exists(path) of the LocalAdapter and the ComposerAdapter, *)
(* with every call awaited before the next one is made.                    *)

GAdapters == {"local", "composer"}

\* the values stored, the empty object and the empty array among them
GValues == {Num(1), EmptyObj, Arr(<<>>)}

\* the content of a file that yaml.load cannot parse
Broken == [t |-> "broken", v |-> 0]

\* what is known of a key: never set, deleted, its file broken, or a value
Never == [t |-> "never", v |-> 0]
Deleted == [t |-> "deleted", v |-> 0]

\* ComposerAdapter.get reading the cache only
composerGetCacheOnly(cache, files, path) ==
    [value |-> IF path \in DOMAIN cache THEN cache[path] ELSE Undefined,
     cache |-> cache,
     threw |-> FALSE]

\* ComposerAdapter.get(path): the cached value; else the file is read and
\* parsed, and the value is cached; a file that is missing or cannot be
\* parsed makes readFile or parseFile throw, which get() catches
composerGet(cache, files, path) ==
    IF path \in DOMAIN cache
    THEN [value |-> cache[path], cache |-> cache, threw |-> FALSE]
    ELSE IF path \in DOMAIN files /\ files[path] # Broken
         THEN [value |-> parseFile(files[path]),
               cache |-> Put(cache, path, parseFile(files[path])),
               threw |-> FALSE]
         ELSE [value |-> Undefined, cache |-> cache, threw |-> FALSE]

\* ComposerAdapter.exists(path): the key is cached, or fs.access finds the file
composerExists(cache, files, path) == path \in DOMAIN cache \/ path \in DOMAIN files

NoGet == [op |-> "none", adapter |-> "", path |-> <<>>, value |-> Undefined,
          exists |-> FALSE, threw |-> FALSE]

InitGet ==
    /\ gData = <<>>
    /\ gcData = <<>>
    /\ gcFiles = <<>>
    /\ gStatus = [k \in GAdapters \X ComposerPaths |-> Never]
    /\ gLast = NoGet
    /\ nGCalls = 0

\* await set(path, value)
GSet(adapter, path, value) ==
    /\ nGCalls < MaxGCalls
    /\ nGCalls' = nGCalls + 1
    /\ IF adapter = "local"
       THEN /\ gData' = setNestedValue(gData, path, value)
            /\ UNCHANGED <<gcData, gcFiles>>
       ELSE /\ gcData' = Put(gcData, path, value)
            /\ gcFiles' = Put(gcFiles, path, serializeFile(value))
            /\ UNCHANGED gData
    /\ gStatus' = [gStatus EXCEPT ![<<adapter, path>>] = value]
    /\ gLast' = NoGet
    /\ UNCHANGED notGet

\* await delete(path); the LocalAdapter deletes the keys under the path too
GDelete(adapter, path) ==
    /\ nGCalls < MaxGCalls
    /\ nGCalls' = nGCalls + 1
    /\ IF adapter = "local"
       THEN /\ gData' = deleteNestedValue(gData, path)
            /\ UNCHANGED <<gcData, gcFiles>>
            /\ gStatus' = [k \in DOMAIN gStatus |->
                             IF k[1] = "local" /\ gStatus[k] # Never
                                /\ (k[2] = path \/ startsWith(k[2], path \o <<"/">>))
                             THEN Deleted ELSE gStatus[k]]
       ELSE /\ gcData' = Without(gcData, path)
            /\ gcFiles' = Without(gcFiles, path)
            /\ UNCHANGED gData
            /\ gStatus' = [gStatus EXCEPT ![<<adapter, path>>] = Deleted]
    /\ gLast' = NoGet
    /\ UNCHANGED notGet

\* another process writes the file of a key into the data directory of a
\* ComposerAdapter that does not watch it: a document, or text that cannot
\* be parsed
GExternalWrite(path, content) ==
    /\ nGCalls < MaxGCalls
    /\ nGCalls' = nGCalls + 1
    /\ path \notin DOMAIN gcData
    /\ gcFiles' = Put(gcFiles, path, content)
    /\ gStatus' = [gStatus EXCEPT ![<<"composer", path>>] =
                        IF content = Broken THEN Broken ELSE parseFile(content)]
    /\ gLast' = NoGet
    /\ UNCHANGED <<gData, gcData>>
    /\ UNCHANGED notGet

\* await exists(path), then await get(path)
GGet(adapter, path) ==
    /\ nGCalls < MaxGCalls
    /\ nGCalls' = nGCalls + 1
    /\ IF adapter = "local"
       THEN /\ gLast' = [op |-> "get", adapter |-> adapter, path |-> path,
                         value |-> getNestedValue(gData, path),
                         exists |-> exists(gData, path),
                         threw |-> FALSE]
            /\ UNCHANGED gcData
       ELSE LET r == composerGet(gcData, gcFiles, path)
            IN  /\ gLast' = [op |-> "get", adapter |-> adapter, path |-> path,
                             value |-> r.value,
                             exists |-> composerExists(gcData, gcFiles, path),
                             threw |-> r.threw]
                /\ gcData' = r.cache
    /\ UNCHANGED <<gData, gcFiles, gStatus>>
    /\ UNCHANGED notGet

-----------------------------------------------------------------------------
(* WorkroomsService: rooms, membership, presence and events, one step per    *)
(* await (src/unnamed/part_007 lines 94-101, 127-139, 159-299, 369-383).     *)
(* A room of a service is an object shared by the service's map and by the   *)
(* calls that looked it up; the rooms handler replaces the map's object by   *)
(* the one the store delivers, and calls in flight keep the one they hold.   *)

\* the slots of a service's objects
ObjIds == 1..MaxObjs

\* no room object
NoRoom == [id |-> 0]

\* uuid() in createRoom: an id no room has yet
uuid == eCreated + 1

\* the ids createRoom() can give
ERoomIds == 1..MaxECreates

\* a room object without its creator among the members
createdRoomNoMembers(id, user) ==
    [id |-> id, members |-> <<>>, moderators |-> <<user>>, messageCount |-> 0]

\* the room object createRoom() builds
createdRoom(id, user) ==
    [id |-> id, members |-> <<user>>, moderators |-> <<user>>, messageCount |-> 0]

\* a push that appends the user twice
pushTwice(room, user) == [room EXCEPT !.members = Append(Append(@, user), user)]

\* room.members.push(user)
push(room, user) == [room EXCEPT !.members = Append(@, user)]

\* room.members = room.members.filter(id => id !== user)
filterMembers(room, user) == [room EXCEPT !.members = filterOut(@, user)]

\* room.messageCount++
countMessage(room) == [room EXCEPT !.messageCount = @ + 1]

\* this.rooms.get(roomId) of a service: the object, or NoRoom
roomsGet(user, roomId) ==
    IF eRooms[user][roomId] = 0 THEN NoRoom ELSE eObjs[user][eRooms[user][roomId]]

\* a slot for a new object
freeSlot(user) ==
    CHOOSE i \in ObjIds :
        /\ eObjs[user][i] = NoRoom
        /\ \A j \in ObjIds : eObjs[user][j] = NoRoom => i <= j

hasFreeSlot(user) == \E i \in ObjIds : eObjs[user][i] = NoRoom

\* the objects still referenced by the map or by a call in flight
collect(objs, rooms, ops) ==
    [u \in Users |->
        [i \in ObjIds |->
            IF \/ \E r \in ERoomIds : rooms[u][r] = i
               \/ \E o \in BagToSet(ops) : o.user = u /\ o.obj = i
            THEN objs[u][i] ELSE NoRoom]]

\* emit(type, roomId, data): the event every handler of this.eventHandlers is
\* called with
emit(type, roomId, user) == [type |-> type, roomId |-> roomId, userId |-> user]

\* the map the presence handler of subscribeToAir() builds from the records
\* the store delivers for a room: an entry for every key, null records
\* included
presenceHandler(presences) ==
    [v \in {u \in Users : presences[u] # "absent"} |-> presences[v]]

\* roomPresence.get(memberId) of getRoomMembers(): the member's record, if
\* the map has one that is not null
present(roomPresence, user) ==
    user \in DOMAIN roomPresence /\ roomPresence[user] = "present"

\* the calls that can wait for the store
Calls ==
    [op : {"createRoom", "joinRoom", "leaveRoom", "sendMessage"}, user : Users,
     roomId : ERoomIds, obj : ObjIds, stage : {"message", "put", "presence"}]

NoCall == [op |-> "none", user |-> "none", roomId |-> 0, result |-> "none"]

settled(op, user, roomId, result) ==
    [op |-> op, user |-> user, roomId |-> roomId, result |-> result]

InitEngine ==
    /\ eStore = [r \in ERoomIds |-> NoRoom]
    /\ eStPres = [r \in ERoomIds |-> [u \in Users |-> "absent"]]
    /\ eStMsgs = {}
    /\ eObjs = [u \in Users |-> [i \in ObjIds |-> NoRoom]]
    /\ eRooms = [u \in Users |-> [r \in ERoomIds |-> 0]]
    /\ eMessages = [u \in Users |-> {}]
    /\ eOps = EmptyBag
    /\ eEmit = <<>>
    /\ eLast = NoCall
    /\ eSent = [r \in ERoomIds |-> 0]
    /\ eLeft = {}
    /\ eCreated = 0
    /\ nECalls = 0
    /\ nEFail = 0

\* a put() of the store either takes the value or throws
PutOutcome(ok) == ok \/ nEFail < MaxEFailures

\* the call rejects (or returns) in this step
ESettle(op, user, roomId, result, ok) ==
    /\ eLast' = settled(op, user, roomId, result)
    /\ nEFail' = IF ok THEN nEFail ELSE nEFail + 1

\* createRoom(options), to the await of the room's put
ECreateRoom(user, ok) ==
    /\ eCreated < MaxECreates
    /\ nECalls < MaxECalls
    /\ PutOutcome(ok)
    /\ hasFreeSlot(user)
    /\ eCreated' = eCreated + 1
    /\ nECalls' = nECalls + 1
    /\ eEmit' = <<>>
    /\ IF ok
       THEN /\ eStore' = [eStore EXCEPT ![uuid] = createdRoom(uuid, user)]
            /\ eObjs' = [eObjs EXCEPT ![user][freeSlot(user)] = createdRoom(uuid, user)]
            /\ eOps' = eOps (+) SetToBag({[op |-> "createRoom", user |-> user,
                                   roomId |-> uuid, obj |-> freeSlot(user), stage |-> "put"]})
            /\ eLast' = NoCall
            /\ UNCHANGED nEFail
       ELSE /\ ESettle("createRoom", user, uuid, "StoreFailed", ok)
            /\ UNCHANGED <<eStore, eObjs, eOps>>
    /\ UNCHANGED <<eStPres, eStMsgs, eRooms, eMessages, eSent>>
    /\ UNCHANGED eLeft
    /\ UNCHANGED notEngine

\* joinRoom(roomId), to its first await
EJoinRoom(user, roomId, ok) ==
    /\ nECalls < MaxECalls
    /\ PutOutcome(ok)
    /\ nECalls' = nECalls + 1
    /\ eEmit' = <<>>
    /\ LET room == roomsGet(user, roomId)
           slot == eRooms[user][roomId]
           op(stage) == [op |-> "joinRoom", user |-> user,
                         roomId |-> roomId, obj |-> slot, stage |-> stage]
       IN  IF room = NoRoom
           THEN /\ ok
                /\ ESettle("joinRoom", user, roomId, "RoomNotFound", TRUE)
                /\ UNCHANGED <<eStore, eStPres, eObjs, eOps>>
           ELSE IF ~includes(room.members, user)
           THEN /\ eObjs' = [eObjs EXCEPT ![user][slot] = push(room, user)]
                /\ IF ok
                   THEN /\ eStore' = [eStore EXCEPT ![roomId] = push(room, user)]
                        /\ eOps' = eOps (+) SetToBag({op("put")})
                        /\ eLast' = NoCall
                        /\ UNCHANGED nEFail
                   ELSE /\ ESettle("joinRoom", user, roomId, "StoreFailed", ok)
                        /\ UNCHANGED <<eStore, eOps>>
                /\ UNCHANGED eStPres
           ELSE /\ IF ok
                   THEN /\ eStPres' = [eStPres EXCEPT ![roomId][user] = "present"]
                        /\ eOps' = eOps (+) SetToBag({op("presence")})
                        /\ eLast' = NoCall
                        /\ UNCHANGED nEFail
                   ELSE /\ ESettle("joinRoom", user, roomId, "StoreFailed", ok)
                        /\ UNCHANGED <<eStPres, eOps>>
                /\ UNCHANGED <<eStore, eObjs>>
    /\ UNCHANGED <<eStMsgs, eRooms, eMessages, eSent, eCreated>>
    /\ UNCHANGED eLeft
    /\ UNCHANGED notEngine

\* leaveRoom(roomId), to its first await
ELeaveRoom(user, roomId, ok) ==
    /\ nECalls < MaxECalls
    /\ PutOutcome(ok)
    /\ nECalls' = nECalls + 1
    /\ eEmit' = <<>>
    /\ LET room == roomsGet(user, roomId)
           slot == eRooms[user][roomId]
       IN  IF room = NoRoom
           THEN /\ ok
                /\ ESettle("leaveRoom", user, roomId, "returned", TRUE)
                /\ UNCHANGED <<eStore, eObjs, eOps, eLeft>>
           ELSE /\ eLeft' = eLeft \cup {<<user, roomId>>}
                /\ eObjs' = [eObjs EXCEPT ![user][slot] = filterMembers(room, user)]
                /\ IF ok
                   THEN /\ eStore' = [eStore EXCEPT ![roomId] = filterMembers(room, user)]
                        /\ eOps' = eOps (+) SetToBag({[op |-> "leaveRoom",
                                               user |-> user, roomId |-> roomId,
                                               obj |-> slot, stage |-> "put"]})
                        /\ eLast' = NoCall
                        /\ UNCHANGED nEFail
                   ELSE /\ ESettle("leaveRoom", user, roomId, "StoreFailed", ok)
                        /\ UNCHANGED <<eStore, eOps>>
    /\ UNCHANGED <<eStPres, eStMsgs, eRooms, eMessages, eSent, eCreated>>
    /\ UNCHANGED notEngine

\* sendMessage(roomId, content), to the await of the message's put
ESendMessage(user, roomId, ok) ==
    /\ nECalls < MaxECalls
    /\ PutOutcome(ok)
    /\ nECalls' = nECalls + 1
    /\ eEmit' = <<>>
    /\ LET room == roomsGet(user, roomId)
       IN  IF room = NoRoom
           THEN /\ ok
                /\ ESettle("sendMessage", user, roomId, "RoomNotFound", TRUE)
                /\ UNCHANGED <<eStMsgs, eOps>>
           ELSE IF ~includes(room.members, user)
           THEN /\ ok
                /\ ESettle("sendMessage", user, roomId, "NotAMember", TRUE)
                /\ UNCHANGED <<eStMsgs, eOps>>
           ELSE IF ok
           THEN /\ eStMsgs' = eStMsgs \cup {[id |-> nECalls + 1, roomId |-> roomId, from |-> user]}
                /\ eOps' = eOps (+) SetToBag({[op |-> "sendMessage",
                                       user |-> user, roomId |-> roomId,
                                       obj |-> eRooms[user][roomId], stage |-> "message"]})
                /\ eLast' = NoCall
                /\ UNCHANGED nEFail
           ELSE /\ ESettle("sendMessage", user, roomId, "StoreFailed", ok)
                /\ UNCHANGED <<eStMsgs, eOps>>
    /\ UNCHANGED <<eStore, eStPres, eObjs, eRooms, eMessages, eSent,
                   eCreated>>
    /\ UNCHANGED eLeft
    /\ UNCHANGED notEngine

\* sendMessage() after the message's put: the room it looked up is counted
\* and put
EMessagePutDone(o, ok) ==
    /\ BagIn(o, eOps)
    /\ o.stage = "message"
    /\ PutOutcome(ok)
    /\ eEmit' = <<>>
    /\ LET room == countMessage(eObjs[o.user][o.obj])
           ops == IF ok THEN (eOps (-) SetToBag({o})) (+) SetToBag({[o EXCEPT !.stage = "put"]})
                  ELSE eOps (-) SetToBag({o})
       IN  /\ eOps' = ops
           /\ eObjs' = collect([eObjs EXCEPT ![o.user][o.obj] = room], eRooms, ops)
           /\ IF ok
              THEN /\ eStore' = [eStore EXCEPT ![o.roomId] = room]
                   /\ eLast' = NoCall
                   /\ UNCHANGED nEFail
              ELSE /\ ESettle("sendMessage", o.user, o.roomId, "StoreFailed", ok)
                   /\ UNCHANGED eStore
    /\ UNCHANGED <<eStPres, eStMsgs, eRooms, eMessages, eSent, eCreated,
                   nECalls>>
    /\ UNCHANGED eLeft
    /\ UNCHANGED notEngine

\* the presence record a call writes next: createRoom() (through joinRoom()),
\* joinRoom() and sendMessage() (through updatePresence()) put a record,
\* leaveRoom() puts null
presencePut(op) == IF op = "leaveRoom" THEN "null" ELSE "present"

\* a call after the room's put: createRoom() stores the room in its maps and
\* calls joinRoom(); all of them put the caller's presence record
ERoomPutDone(o, ok) ==
    /\ BagIn(o, eOps)
    /\ o.stage = "put"
    /\ PutOutcome(ok)
    /\ eEmit' = <<>>
    /\ LET ops == IF ok THEN (eOps (-) SetToBag({o})) (+) SetToBag({[o EXCEPT !.stage = "presence"]})
                  ELSE eOps (-) SetToBag({o})
           rooms == IF o.op = "createRoom"
                    THEN [eRooms EXCEPT ![o.user][o.roomId] = o.obj]
                    ELSE eRooms
       IN  /\ eOps' = ops
           /\ eRooms' = rooms
           /\ eMessages' = IF o.op = "createRoom"
                           THEN [eMessages EXCEPT ![o.user] = @ \cup {o.roomId}]
                           ELSE eMessages
           /\ eObjs' = collect(eObjs, rooms, ops)
           /\ IF ok
              THEN /\ eStPres' = [eStPres EXCEPT ![o.roomId][o.user] = presencePut(o.op)]
                   /\ eLast' = NoCall
                   /\ UNCHANGED nEFail
              ELSE /\ ESettle(o.op, o.user, o.roomId, "StoreFailed", ok)
                   /\ UNCHANGED eStPres
    /\ UNCHANGED <<eStore, eStMsgs, eSent, eCreated, nECalls>>
    /\ UNCHANGED eLeft
    /\ UNCHANGED notEngine

\* the events a call emits once its presence put returned
emitted(o) ==
    CASE o.op = "createRoom" -> <<emit("join", o.roomId, o.user),
                                  emit("room_created", o.roomId, o.user)>>
      [] o.op = "joinRoom" -> <<emit("join", o.roomId, o.user)>>
      [] o.op = "leaveRoom" -> <<emit("leave", o.roomId, o.user)>>
      [] OTHER -> <<>>

\* a call after the presence put: it emits its events and resolves
EPresencePutDone(o) ==
    /\ BagIn(o, eOps)
    /\ o.stage = "presence"
    /\ eOps' = eOps (-) SetToBag({o})
    /\ eObjs' = collect(eObjs, eRooms, eOps (-) SetToBag({o}))
    /\ eEmit' = emitted(o)
    /\ eLast' = settled(o.op, o.user, o.roomId, "ok")
    /\ eSent' = IF o.op = "sendMessage" THEN [eSent EXCEPT ![o.roomId] = @ + 1] ELSE eSent
    /\ UNCHANGED <<eStore, eStPres, eStMsgs, eRooms, eMessages, eCreated,
                   nECalls, nEFail>>
    /\ UNCHANGED eLeft
    /\ UNCHANGED notEngine

\* the rooms handler of subscribeToAir(): the store delivers a room
EDeliverRoom(user, roomId) ==
    /\ eStore[roomId] # NoRoom
    /\ \/ roomsGet(user, roomId) # eStore[roomId]
       \/ \E o \in BagToSet(eOps) : o.user = user /\ o.obj = eRooms[user][roomId]
    /\ hasFreeSlot(user)
    /\ LET rooms == [eRooms EXCEPT ![user][roomId] = freeSlot(user)]
       IN  /\ eRooms' = rooms
           /\ eObjs' = collect([eObjs EXCEPT ![user][freeSlot(user)] = eStore[roomId]],
                               rooms, eOps)
    /\ eEmit' = <<emit("room_updated", roomId, user)>>
    /\ eLast' = NoCall
    /\ UNCHANGED <<eStore, eStPres, eStMsgs, eMessages, eOps, eSent,
                   eCreated, nECalls, nEFail>>
    /\ UNCHANGED eLeft
    /\ UNCHANGED notEngine

-----------------------------------------------------------------------------
(* Command dispatch: WorkroomsService.handleCommand                          *)
(* (src/unnamed/part_007 lines 333-366) called from the WebSocket handlers   *)
(* of DashboardService (src/unnamed/part_006 lines 507-532) and of           *)
(* DashboardServerV2 (src/src/server-v2.ts lines 419-444).                   *)

Servers == {"DashboardService", "DashboardServerV2"}

\* command.action: the six actions of the switch, and one it does not know
Actions == {"create", "join", "leave", "message", "list", "history", "unknown"}

\* what the operation behind an action throws when it fails; getUserRooms()
\* and getRoomMessages() throw nothing
errorOf(action) ==
    CASE action = "create" -> "put failed"
      [] action = "join" -> "Room not found"
      [] action = "leave" -> "put failed"
      [] action = "message" -> "Not a member of this room"
      [] action = "unknown" -> "Unknown command: unknown"
      [] OTHER -> "none"

\* handleCommand(command): the promise it returns resolves with the result
\* of the operation or rejects with its error; the default branch throws
handleCommand(action, fails) ==
    IF action = "unknown" \/ (fails /\ errorOf(action) # "none")
    THEN [settled |-> "rejected", error |-> errorOf(action)]
    ELSE [settled |-> "resolved", error |-> "none"]

\* the message the handler sends on the socket once handleCommand() settled
reply(server, action, outcome) ==
    IF server = "DashboardService"
    THEN IF outcome.settled = "resolved"
         THEN [type |-> "workroom-result", command |-> action]
         ELSE [type |-> "workroom-error", command |-> action, error |-> outcome.error]
    ELSE IF outcome.settled = "resolved"
         THEN [type |-> "workroom-result"]
         ELSE [type |-> "error", message |-> outcome.error]

NoReply == [type |-> "none"]

InitDispatch ==
    /\ dPending = {}
    /\ dReply = NoReply
    /\ dFailed = NoReply
    /\ nDCommands = 0

\* a 'workroom-command' message arrives: the handler calls handleCommand()
DCommand(server, action, fails) ==
    /\ nDCommands < MaxDCommands
    /\ nDCommands' = nDCommands + 1
    /\ dPending' = dPending \cup {[n |-> nDCommands + 1, server |-> server,
                                   action |-> action, fails |-> fails]}
    /\ dReply' = NoReply
    /\ dFailed' = NoReply
    /\ UNCHANGED notDispatch

\* handleCommand() settles and the handler sends its reply
DSettles(n, server, action, fails) ==
    /\ [n |-> n, server |-> server, action |-> action, fails |-> fails] \in dPending
    /\ dPending' = dPending \ {[n |-> n, server |-> server, action |-> action,
                                fails |-> fails]}
    /\ dReply' = reply(server, action, handleCommand(action, fails))
    /\ dFailed' = IF handleCommand(action, fails).settled = "rejected"
                  THEN [type |-> "failed", action |-> action,
                        error |-> handleCommand(action, fails).error]
                  ELSE NoReply
    /\ UNCHANGED nDCommands
    /\ UNCHANGED notDispatch

-----------------------------------------------------------------------------
(* list(prefix) of the LocalAdapter (src/unnamed/part_002 lines 104-128)    *)
(* and of the ComposerAdapter (src/src/adapters/ComposerAdapter.ts lines     *)
(* 142-167).                                                                 *)

\* the keys `for (const key in obj)` goes through: the property names of
\* an object, the indices of an array
keysOf(obj) ==
    CASE obj.t = "obj" -> SetToSeq(DOMAIN obj.v)
      [] obj.t = "arr" -> [i \in 1..Len(obj.v) |-> <<ToString(i - 1)>>]
      [] OTHER -> <<>>

\* obj[key] for the i-th of these keys
childOf(obj, i) == IF obj.t = "obj" THEN obj.v[keysOf(obj)[i]] ELSE obj.v[i]

\* traverse(obj, currentPath) of list(): the results it pushes
RECURSIVE traverse(_, _, _)
RECURSIVE traverseKeys(_, _, _, _)
traverse(obj, currentPath, prefix) ==
    IF obj.t \notin {"obj", "arr"} THEN <<>>
    ELSE traverseKeys(obj, currentPath, prefix, 1)

\* the `for (const key in obj)` loop of traverse
traverseKeys(obj, currentPath, prefix, i) ==
    IF i > Len(keysOf(obj)) THEN <<>>
    ELSE LET key == keysOf(obj)[i]
             fullPath == IF currentPath = <<>> THEN key ELSE joinPath(currentPath, key)
             pushed == IF startsWith(fullPath, prefix) THEN <<fullPath>> ELSE <<>>
         IN  pushed \o traverse(childOf(obj, i), fullPath, prefix)
                    \o traverseKeys(obj, currentPath, prefix, i + 1)

\* a list() that returns the keys of this.data
listKeys(m, prefix) ==
    [ok |-> TRUE,
     results |-> SetToSeq({k \in MapKeys(m) : startsWith(k, prefix)}),
     map |-> m]

\* LocalAdapter.list(prefix): the paths of all nodes of pathToObject() that
\* start with the prefix; pathToObject() may throw, and leaves the stored
\* objects as it changed them
list(m, prefix) ==
    LET r == pathToObject(m)
    IN  IF r.ok
        THEN [ok |-> TRUE, results |-> traverse(r.obj, <<>>, prefix), map |-> r.map]
        ELSE [ok |-> FALSE, results |-> <<>>, map |-> r.map]

\* ComposerAdapter.list(prefix): the cached keys that start with the prefix;
\* walkDir(pathToFile(prefix)) reads the '.yaml' file of the prefix as a
\* directory and finds nothing
composerList(cache, prefix) == SetToSeq({k \in DOMAIN cache : startsWith(k, prefix)})

NoList == [op |-> "none", prefix |-> <<>>, ok |-> TRUE, results |-> <<>>]

InitList ==
    /\ qData = <<>>
    /\ qLast = NoList
    /\ nQCalls = 0

\* set(path, value) of the LocalAdapter
QSet(path, value) ==
    /\ nQCalls < MaxQCalls
    /\ nQCalls' = nQCalls + 1
    /\ qData' = setNestedValue(qData, path, value)
    /\ qLast' = NoList
    /\ UNCHANGED notList

\* delete(path) of the LocalAdapter
QDelete(path) ==
    /\ nQCalls < MaxQCalls
    /\ nQCalls' = nQCalls + 1
    /\ qData' = deleteNestedValue(qData, path)
    /\ qLast' = NoList
    /\ UNCHANGED notList

\* list(prefix) of the LocalAdapter
QList(prefix) ==
    /\ nQCalls < MaxQCalls
    /\ nQCalls' = nQCalls + 1
    /\ qData' = list(qData, prefix).map
    /\ qLast' = [op |-> "list", prefix |-> prefix, ok |-> list(qData, prefix).ok,
                 results |-> list(qData, prefix).results]
    /\ UNCHANGED notList

-----------------------------------------------------------------------------
(* ComposerAdapter with watchFiles: its own set(), delete() and get()
   calls together with the watcher of the data directory, which reports
   the adapter's own writes and unlinks like those of any process. *)

\* the gets in flight
reading == {i \in 1..Len(cOps) : cOps[i].kind \in {"get", "got"}}

\* writeFile of a set() completes: the file holds the value, the watcher
\* will report 'add' or 'change', and set() notifies the subscribers
HSetDone(i) ==
    /\ i \in 1..Len(cOps)
    /\ cOps[i].kind = "set"
    /\ cFiles' = Put(cFiles, cOps[i].path, serializeFile(cOps[i].value))
    /\ cEvents' = Append(cEvents,
                         [kind |-> IF cOps[i].path \in DOMAIN cFiles THEN "change" ELSE "add",
                          file |-> pathToFile(cOps[i].path)])
    /\ cCalls' = notifySubscribers(cSubscribers, cOps[i].path, cOps[i].value)
    /\ cOps' = RemoveAt(cOps, i)
    /\ cLast' = [op |-> "setDone", path |-> cOps[i].path]
    /\ UNCHANGED <<cData, cSubscribers, cPolling, cSubs, nCSets, nCDeletes, cReads, nXChanges>>
    /\ UNCHANGED <<localVars, lsubVars, roomVars, typingVars, moreVars>>

\* unlink of a delete() completes: a file that was there is gone and the
\* watcher will report 'unlink'; a missing file is ignored
HDeleteDone(i) ==
    /\ i \in 1..Len(cOps)
    /\ cOps[i].kind = "delete"
    /\ cFiles' = Without(cFiles, cOps[i].path)
    /\ cEvents' = IF cOps[i].path \in DOMAIN cFiles
                  THEN Append(cEvents, [kind |-> "unlink", file |-> pathToFile(cOps[i].path)])
                  ELSE cEvents
    /\ cCalls' = notifySubscribers(cSubscribers, cOps[i].path, Undefined)
    /\ cOps' = RemoveAt(cOps, i)
    /\ cLast' = [op |-> "deleteDone", path |-> cOps[i].path]
    /\ UNCHANGED <<cData, cSubscribers, cPolling, cSubs, nCSets, nCDeletes, cReads, nXChanges>>
    /\ UNCHANGED <<localVars, lsubVars, roomVars, typingVars, moreVars>>

\* get(path) of a key that is not in memory, up to its await: readFile is
\* requested (a key in memory is returned at once and nothing changes)
HGetStart(path) ==
    /\ path \notin DOMAIN cData
    /\ Cardinality(reading) < MaxCGets
    /\ cOps' = Append(cOps, [kind |-> "get", path |-> path, value |-> Undefined])
    /\ cCalls' = <<>>
    /\ cLast' = NoOp
    /\ UNCHANGED <<cData, cFiles, cSubscribers, cPolling, cSubs, nCSets, nCDeletes>>
    /\ UNCHANGED <<localVars, lsubVars, roomVars, restVars>>

\* readFile of a get() reads the file as it is now; when the file is gone
\* get() returns undefined
HGetRead(i) ==
    /\ i \in 1..Len(cOps)
    /\ cOps[i].kind = "get"
    /\ cOps' = IF cOps[i].path \in DOMAIN cFiles
               THEN [cOps EXCEPT ![i].kind = "got", ![i].value = cFiles[cOps[i].path]]
               ELSE RemoveAt(cOps, i)
    /\ cCalls' = <<>>
    /\ cLast' = NoOp
    /\ UNCHANGED <<cData, cFiles, cSubscribers, cPolling, cSubs, nCSets, nCDeletes>>
    /\ UNCHANGED <<localVars, lsubVars, roomVars, restVars>>

\* get() after readFile: the parsed content is put in memory and returned
HGetDone(i) ==
    /\ i \in 1..Len(cOps)
    /\ cOps[i].kind = "got"
    /\ cData' = Put(cData, cOps[i].path, parseFile(cOps[i].value))
    /\ cOps' = RemoveAt(cOps, i)
    /\ cCalls' = <<>>
    /\ cLast' = [op |-> "getDone", path |-> cOps[i].path]
    /\ UNCHANGED <<cFiles, cSubscribers, cPolling, cSubs, nCSets, nCDeletes>>
    /\ UNCHANGED <<localVars, lsubVars, roomVars, restVars>>

-----------------------------------------------------------------------------
(* The lifecycle of one LocalAdapter object: connect(), set(), the ticks of
   its save timers and disconnect(), each called in any state of the
   object.  The file operations of load() and save() are taken in one step
   with the call that makes them. *)

LifeValues == {Num(1), Num(2)}

\* load() on this.data as it is: objectToPath() sets every leaf of the
\* document into the map and leaves the other keys alone; a missing file
\* (ENOENT) leaves the map as it was
loadInto(m, content) ==
    IF content.t = "absent" THEN m
    ELSE objectToPath(m, JSONparse(content.v), <<>>)

\* the document save() writes and renames onto the data file
saved(m) == Doc(JSONstringify(pathToObject(m).obj))

InitLife ==
    /\ aData = <<>>
    /\ aFile = Absent
    /\ aDirty = FALSE
    /\ aReady = FALSE
    /\ aSaveTimer = 0
    /\ aTimers = {}
    /\ aLast = "none"
    /\ nACalls = 0

\* connect(): mkdir, load(), `this.saveTimer = setInterval(...)` (autoSave is
\* true by default), `this.ready = true`; nothing looks at this.ready or at
\* the timer the field already holds
AConnect ==
    /\ nACalls < MaxACalls
    /\ nACalls' = nACalls + 1
    /\ aData' = loadInto(aData, aFile)
    /\ aTimers' = aTimers \cup {nACalls + 1}
    /\ aSaveTimer' = nACalls + 1
    /\ aReady' = TRUE
    /\ aLast' = "connect"
    /\ UNCHANGED <<aFile, aDirty>>
    /\ UNCHANGED notLife

\* set(path, value): setNestedValue(), isDirty = true
ASet(value) ==
    /\ nACalls < MaxACalls
    /\ nACalls' = nACalls + 1
    /\ aData' = setNestedValue(aData, PathA, value)
    /\ aDirty' = TRUE
    /\ aLast' = "set"
    /\ UNCHANGED <<aFile, aReady, aSaveTimer, aTimers>>
    /\ UNCHANGED notLife

\* the callback of an interval that has not been cleared:
\* `if (this.isDirty) this.save()`
ATimerTick(timer) ==
    /\ timer \in aTimers
    /\ aDirty
    /\ aFile' = saved(aData)
    /\ aDirty' = FALSE
    /\ aLast' = "tick"
    /\ UNCHANGED <<aData, aReady, aSaveTimer, aTimers, nACalls>>
    /\ UNCHANGED notLife

\* disconnect(): clearInterval(this.saveTimer) when the field holds a timer,
\* save() when dirty, `this.ready = false`
ADisconnect ==
    /\ nACalls < MaxACalls
    /\ nACalls' = nACalls + 1
    /\ aTimers' = aTimers \ {aSaveTimer}
    /\ aSaveTimer' = 0
    /\ aFile' = IF aDirty THEN saved(aData) ELSE aFile
    /\ aDirty' = FALSE
    /\ aReady' = FALSE
    /\ aLast' = "disconnect"
    /\ UNCHANGED aData
    /\ UNCHANGED notLife

-----------------------------------------------------------------------------
(* NetworkMonitor.pingPeers(): one put with an ack callback and one 3 s
   timer per peer, rounds started by the 5 s interval of start().  A round
   has ended (every timer fired or cleared within 3 s) when the interval
   starts the next one; the acks of an ended round may still arrive. *)

Peers == {"p1", "p2"}

\* Date.now() - start of an acknowledged ping
Latencies == {1, 2}

NoPing == [op |-> "none", peer |-> "", late |-> FALSE]

\* resolve() and reject() of a promise: only a pending promise settles
settleAnew(state, outcome) == outcome

settle(state, outcome) == IF state = "pending" THEN outcome ELSE state

\* the entry the try block, or the catch block, sets for the peer
peerStatus(outcome, latency) ==
    IF outcome = "resolved" THEN [connected |-> TRUE, latency |-> latency]
    ELSE [connected |-> FALSE, latency |-> 0]

\* what the try block, or the catch block, emits
peerEvents(peer, outcome, latency) ==
    IF outcome = "resolved"
    THEN <<[type |-> "peer:connected", arg |-> peer], [type |-> "latency", arg |-> latency]>>
    ELSE <<[type |-> "peer:disconnected", arg |-> peer]>>

RECURSIVE sumLatency(_, _)
sumLatency(peers, S) ==
    IF S = {} THEN 0
    ELSE LET p == CHOOSE q \in S : TRUE
         IN  peers[p].latency + sumLatency(peers, S \ {p})

\* the end of pingPeers() after Promise.allSettled: the rounded average
\* latency of the connected peers is emitted when there are any
average(peers) ==
    LET connectedPeers == {p \in Peers : peers[p].connected}
        n == Cardinality(connectedPeers)
    IN  IF n > 0
        THEN <<[type |-> "latency",
                arg |-> (2 * sumLatency(peers, connectedPeers) + n) \div (2 * n)]>>
        ELSE <<>>

InitPing ==
    /\ pPeers = [p \in Peers |-> [connected |-> FALSE, latency |-> 0]]
    /\ pRound = 0
    /\ pProm = [p \in Peers |-> "none"]
    /\ pTimers = {}
    /\ pAcks = {}
    /\ pRunning = FALSE
    /\ pEmit = <<>>
    /\ pLast = NoPing

\* pingPeers() up to its await: for every peer a promise, its timer and
\* its put
PPing ==
    /\ ~pRunning
    /\ pRound < MaxRounds
    /\ pRound' = pRound + 1
    /\ pProm' = [p \in Peers |-> "pending"]
    /\ pTimers' = Peers
    /\ pAcks' = pAcks \cup {[round |-> pRound + 1, peer |-> p] : p \in Peers}
    /\ pRunning' = TRUE
    /\ pEmit' = <<>>
    /\ pLast' = [op |-> "ping", peer |-> "", late |-> FALSE]
    /\ UNCHANGED pPeers
    /\ UNCHANGED notPing

\* the promise of the peer is given an outcome; when that settles it, the
\* rest of the peer's async function runs, and when it was the last one
\* pending, the rest of pingPeers()
promiseSettled(peer, outcome, latency) ==
    LET state == settle(pProm[peer], outcome)
        ran == state # pProm[peer]
        peers == IF ran THEN [pPeers EXCEPT ![peer] = peerStatus(outcome, latency)]
                 ELSE pPeers
        prom == [pProm EXCEPT ![peer] = state]
        done == pRunning /\ ran /\ \A p \in Peers : prom[p] # "pending"
    IN  /\ pProm' = prom
        /\ pPeers' = peers
        /\ pRunning' = (pRunning /\ ~done)
        /\ pEmit' = (IF ran THEN peerEvents(peer, outcome, latency) ELSE <<>>)
                    \o (IF done THEN average(peers) ELSE <<>>)

\* the ack callback of a put: clearTimeout(timeout), then reject(ack.err)
\* or resolve(ack); the callback of an ended round holds that round's
\* timer and promise, all fired and settled
PAck(round, peer, err, latency) ==
    /\ [round |-> round, peer |-> peer] \in pAcks
    /\ pAcks' = pAcks \ {[round |-> round, peer |-> peer]}
    /\ pLast' = [op |-> "ack", peer |-> peer,
                 late |-> (round # pRound \/ pProm[peer] # "pending")]
    /\ IF round = pRound
       THEN /\ pTimers' = pTimers \ {peer}
            /\ promiseSettled(peer, IF err THEN "rejected" ELSE "resolved", latency)
       ELSE /\ UNCHANGED <<pTimers, pProm, pPeers, pRunning>>
            /\ pEmit' = <<>>
    /\ UNCHANGED pRound
    /\ UNCHANGED notPing

\* the 3 s timer of a peer fires: reject(new Error('Timeout'))
PTimeout(peer) ==
    /\ peer \in pTimers
    /\ pTimers' = pTimers \ {peer}
    /\ pLast' = [op |-> "timeout", peer |-> peer, late |-> FALSE]
    /\ promiseSettled(peer, "rejected", 0)
    /\ UNCHANGED <<pRound, pAcks>>
    /\ UNCHANGED notPing

-----------------------------------------------------------------------------
(* The constructor of WorkroomsService: initializeDefaultRooms() calls
   createRoom() for every default room without awaiting it.  All the calls
   of one constructor run to their first await in the constructor's step;
   the store accepts every put of a default room and acknowledges the puts
   of one service in the order in which they were issued; services are
   constructed over the same store. *)

projects == <<"composer", "battle", "builder", "air", "ui", "access">>

teamsBut == <<"core-fix", "integration", "feature-dev", "security", "integrity",
              "team-air", "team-composer", "team-battle", "team-builder">>

teams == <<"core-fix", "integration", "feature-dev", "security", "integrity",
           "team-air", "team-composer", "team-battle", "team-builder", "team-ui">>

\* the name and type of the createRoom() calls of initializeDefaultRooms(),
\* in the order of the calls
defaultRooms ==
    <<[name |-> "global", type |-> "global"]>>
    \o [i \in 1..Len(projects) |-> [name |-> projects[i], type |-> "project"]]
    \o [i \in 1..Len(teams) |-> [name |-> teams[i], type |-> "team"]]

\* the room object each of these createRoom() calls builds; `first` is the
\* number of uuid() calls made before
initializeDefaultRooms(user, first) ==
    [i \in 1..Len(defaultRooms) |->
        [id |-> first + i, name |-> defaultRooms[i].name, type |-> defaultRooms[i].type,
         creator |-> user, members |-> <<user>>]]

\* the first createRoom() call of a service that is at the given await
front(stages, stage) ==
    IF \E k \in DOMAIN stages : stages[k] = stage
    THEN CHOOSE k \in DOMAIN stages :
            stages[k] = stage /\ \A j \in 1..(k - 1) : stages[j] # stage
    ELSE 0

InitSeed ==
    /\ iStore = {}
    /\ iUser = <<>>
    /\ iObjs = <<>>
    /\ iStage = <<>>
    /\ iRooms = <<>>

\* new WorkroomsService(airClient, currentUser)
IConstruct(user) ==
    /\ Len(iUser) < MaxServices
    /\ iUser' = Append(iUser, user)
    /\ iObjs' = Append(iObjs, initializeDefaultRooms(user, Len(iUser) * Len(defaultRooms)))
    /\ iStage' = Append(iStage, [i \in 1..Len(defaultRooms) |-> "room"])
    /\ iRooms' = Append(iRooms, {})
    /\ UNCHANGED iStore
    /\ UNCHANGED notSeed

\* `await ...get('workrooms').get(room.id).put(room)` of createRoom()
\* settles: rooms.set(), messages.set(), then joinRoom() up to its put of
\* the presence (the creator is a member already)
ISeedRoomPutDone(service) ==
    /\ service \in DOMAIN iStage
    /\ front(iStage[service], "room") # 0
    /\ LET k == front(iStage[service], "room")
           room == iObjs[service][k]
       IN  /\ iStore' = iStore \cup {room}
           /\ iRooms' = [iRooms EXCEPT ![service] = @ \cup {room}]
           /\ iStage' = [iStage EXCEPT ![service][k] = "presence"]
    /\ UNCHANGED <<iUser, iObjs>>
    /\ UNCHANGED notSeed

\* the put of the presence settles: joinRoom() emits 'join' and returns,
\* createRoom() emits 'room_created' and returns
ISeedPresencePutDone(service) ==
    /\ service \in DOMAIN iStage
    /\ front(iStage[service], "presence") # 0
    /\ LET k == front(iStage[service], "presence")
       IN  iStage' = [iStage EXCEPT ![service][k] = "done"]
    /\ UNCHANGED <<iStore, iUser, iObjs, iRooms>>
    /\ UNCHANGED notSeed

-----------------------------------------------------------------------------
(* AgentTracker: this.agents under registerAgent(), updateAgentStatus(),
   the handler start() puts on the agents channel, and the health check. *)

AgentIds == {"agent-1", "agent-2"}

AgentStatuses == {"online", "offline", "busy"}

\* the status of an agent that is not tracked
Untracked == "none"

NoTrack == [op |-> "none", id |-> "", status |-> ""]

\* the status registerAgent(id, data) stores: `status: 'online'`, whatever
\* data.status is
registeredStatus(status) == "online"

\* the status the channel handler stores: data.status || 'offline'
channelStatus(status) == IF status = "" THEN "offline" ELSE status

\* getOnlineAgents(): the tracked agents whose status is 'online'
getOnlineAgents(agents) == {id \in AgentIds : agents[id] = "online"}

InitTrack ==
    /\ kAgents = [id \in AgentIds |-> Untracked]
    /\ kPending = {}
    /\ kLast = NoTrack
    /\ nKCalls = 0

\* registerAgent(id, data) up to its await
KRegisterAgent(id, status) ==
    /\ nKCalls < MaxKCalls
    /\ nKCalls' = nKCalls + 1
    /\ kAgents' = [kAgents EXCEPT ![id] = registeredStatus(status)]
    /\ kPending' = kPending \cup {id}
    /\ kLast' = [op |-> "register", id |-> id, status |-> status]
    /\ UNCHANGED notTrack

\* the ack of the put: registerAgent() emits 'agent:connected' and
\* returns, or rejects with ack.err
KRegisterAck(id, err) ==
    /\ id \in kPending
    /\ kPending' = kPending \ {id}
    /\ kLast' = [op |-> IF err THEN "registerRejected" ELSE "registered", id |-> id,
                 status |-> ""]
    /\ UNCHANGED <<kAgents, nKCalls>>
    /\ UNCHANGED notTrack

\* updateAgentStatus(id, status), the put of which is not followed here:
\* nothing of this.agents changes after it
KUpdateAgentStatus(id, status) ==
    /\ nKCalls < MaxKCalls
    /\ nKCalls' = nKCalls + 1
    /\ kAgents' = IF kAgents[id] # Untracked THEN [kAgents EXCEPT ![id] = status]
                  ELSE kAgents
    /\ kLast' = [op |-> "update", id |-> id, status |-> status]
    /\ UNCHANGED kPending
    /\ UNCHANGED notTrack

\* the handler of agentsChannel.map().on(): data of an agent arrives
KChannelData(id, status) ==
    /\ nKCalls < MaxKCalls
    /\ nKCalls' = nKCalls + 1
    /\ kAgents' = [kAgents EXCEPT ![id] = channelStatus(status)]
    /\ kLast' = [op |-> "data", id |-> id, status |-> status]
    /\ UNCHANGED kPending
    /\ UNCHANGED notTrack

\* checkAgentHealth(): the online agents last seen more than 30 s ago are
\* set offline
KCheckAgentHealth(stale) ==
    /\ nKCalls < MaxKCalls
    /\ nKCalls' = nKCalls + 1
    /\ stale \subseteq getOnlineAgents(kAgents)
    /\ kAgents' = [id \in AgentIds |-> IF id \in stale THEN "offline" ELSE kAgents[id]]
    /\ kLast' = [op |-> "health", id |-> "", status |-> ""]
    /\ UNCHANGED kPending
    /\ UNCHANGED notTrack

-----------------------------------------------------------------------------
(* MessageFeed: the buffer this.messages under handleMessage(),
   getRecentMessages() and clearMessages().  A message is named by the
   number of its arrival. *)

\* the maxMessages given to the constructor
FeedSizes == 1..MaxFeedSize

\* the counts getRecentMessages() is called with
FeedCounts == 0..MaxFeedCount

NoFeed == [op |-> "none", count |-> 0, result |-> <<>>]

\* Array.prototype.slice(start): a negative start counts from the end, and
\* -0 is 0
slice(array, start) ==
    LET k == IF start < 0
             THEN (IF Len(array) + start > 0 THEN Len(array) + start ELSE 0)
             ELSE (IF start < Len(array) THEN start ELSE Len(array))
    IN  SubSeq(array, k + 1, Len(array))

\* handleMessage(): push, then keep the last maxMessages entries when there
\* are more
handleMessage(messages, message, maxMessages) ==
    LET pushed == Append(messages, message)
    IN  IF Len(pushed) > maxMessages THEN slice(pushed, 0 - maxMessages) ELSE pushed

\* getRecentMessages(count)
getRecentMessages(messages, count) == slice(messages, 0 - count)

InitFeed ==
    /\ fMax = 0
    /\ fMessages = <<>>
    /\ fArrived = 0
    /\ fLast = NoFeed

\* new MessageFeed(gun, maxMessages)
FConstruct(maxMessages) ==
    /\ fMax = 0
    /\ fMax' = maxMessages
    /\ fLast' = [op |-> "construct", count |-> 0, result |-> <<>>]
    /\ UNCHANGED <<fMessages, fArrived>>
    /\ UNCHANGED notFeed

\* a message arrives on one of the channels
FHandleMessage ==
    /\ fMax # 0
    /\ fArrived < MaxArrivals
    /\ fArrived' = fArrived + 1
    /\ fMessages' = handleMessage(fMessages, fArrived + 1, fMax)
    /\ fLast' = [op |-> "message", count |-> 0, result |-> <<>>]
    /\ UNCHANGED fMax
    /\ UNCHANGED notFeed

FGetRecentMessages(count) ==
    /\ fMax # 0
    /\ fLast' = [op |-> "recent", count |-> count,
                 result |-> getRecentMessages(fMessages, count)]
    /\ UNCHANGED <<fMax, fMessages, fArrived>>
    /\ UNCHANGED notFeed

\* clearMessages()
FClearMessages ==
    /\ fMax # 0
    /\ fMessages' = <<>>
    /\ fLast' = [op |-> "clear", count |-> 0, result |-> <<>>]
    /\ UNCHANGED <<fMax, fArrived>>
    /\ UNCHANGED notFeed

-----------------------------------------------------------------------------
(* createDirectMessage() of the WorkroomsService of one user, with the
   createRoom() and joinRoom() it runs.  The store accepts the puts. *)

\* the current user of the service
DmUser == "u1"

\* the users this.users knows, and the ids createDirectMessage() is given
DmKnown == {"u1", "u2"}

DmPeers == {"u1", "u2", "u3"}

NoDm == [op |-> "none", userId |-> "", room |-> [id |-> 0]]

\* the room createRoom(options) builds: options.members is not read, the
\* members are the current user alone
dmRoom(id, options) ==
    [id |-> id, name |-> options.name, type |-> options.type, members |-> <<DmUser>>]

\* the rooms the search of createDirectMessage() accepts
existingDM(rooms, userId) ==
    {room \in rooms :
        /\ room.type = "dm"
        /\ includes(room.members, DmUser)
        /\ includes(room.members, userId)
        /\ Len(room.members) = 2}

InitDm ==
    /\ mRooms = {}
    /\ mOps = {}
    /\ mLast = NoDm
    /\ mCreated = 0

\* createDirectMessage(userId) up to the first await of createRoom(), or
\* to its return or throw
MCreateDirectMessage(userId) ==
    /\ mCreated + Cardinality(mOps) < MaxDmCalls
    /\ IF userId \notin DmKnown
       THEN /\ mLast' = [op |-> "userNotFound", userId |-> userId, room |-> [id |-> 0]]
            /\ UNCHANGED <<mOps, mCreated>>
       ELSE IF existingDM(mRooms, userId) # {}
       THEN /\ mLast' = [op |-> "returned", userId |-> userId,
                         room |-> CHOOSE room \in existingDM(mRooms, userId) :
                                     \A other \in existingDM(mRooms, userId) :
                                         room.id <= other.id]
            /\ UNCHANGED <<mOps, mCreated>>
       ELSE /\ mOps' = mOps \cup
                 {[stage |-> "room", userId |-> userId,
                   room |-> dmRoom(mCreated + Cardinality(mOps) + 1,
                                   [name |-> <<DmUser, userId>>, type |-> "dm",
                                    members |-> <<DmUser, userId>>])]}
            /\ mLast' = [op |-> "called", userId |-> userId, room |-> [id |-> 0]]
            /\ UNCHANGED mCreated
    /\ UNCHANGED mRooms
    /\ UNCHANGED notDm

\* the put of the room settles: rooms.set(), then joinRoom() up to its put
\* of the presence (the current user is a member already)
MRoomPutDone(o) ==
    /\ o \in mOps
    /\ o.stage = "room"
    /\ mRooms' = mRooms \cup {o.room}
    /\ mOps' = (mOps \ {o}) \cup {[o EXCEPT !.stage = "presence"]}
    /\ mLast' = [op |-> "stored", userId |-> o.userId, room |-> [id |-> 0]]
    /\ UNCHANGED mCreated
    /\ UNCHANGED notDm

\* the put of the presence settles: joinRoom() returns, createRoom()
\* returns the room, and createDirectMessage() returns it
MPresencePutDone(o) ==
    /\ o \in mOps
    /\ o.stage = "presence"
    /\ mOps' = mOps \ {o}
    /\ mCreated' = mCreated + 1
    /\ mLast' = [op |-> "returned", userId |-> o.userId, room |-> o.room]
    /\ UNCHANGED mRooms
    /\ UNCHANGED notDm

-----------------------------------------------------------------------------
Init ==
    /\ InitLocal /\ InitComposer /\ InitRooms /\ InitWatch /\ InitTyping
    /\ InitRegistry
    /\ InitPublish
    /\ InitBatch
    /\ InitGet
    /\ InitEngine
    /\ InitDispatch
    /\ InitList
    /\ InitLife
    /\ InitPing
    /\ InitSeed
    /\ InitTrack
    /\ InitFeed
    /\ InitDm

Next ==
    \/ LConnect
    \/ \E path \in Paths, value \in Values : LSet(path, value)
    \/ \E path \in Paths : LDelete(path)
    \/ LTimerTick
    \/ LSave
    \/ LDisconnect
    \/ \E i \in 1..MaxSaves : LSaveOpen(i)
    \/ \E i \in 1..MaxSaves : LSaveWrite(i)
    \/ \E i \in 1..MaxSaves : LSaveRename(i)
    \/ \E i \in 1..MaxSaves : LSaveDone(i)

\* the LocalAdapter with its data file
Spec == Init /\ [][Next]_vars

NextLocalSubs ==
    \/ LConnect
    \/ \E path \in Paths, value \in Values : LSet(path, value)
    \/ \E path \in Paths : LDelete(path)
    \/ \E path \in Paths, callback \in Callbacks : LSubscribe(path, callback)
    \/ \E i \in 1..MaxSubs : LUnsubscribe(i)

\* the LocalAdapter with its subscribers
SpecLocalSubs == Init /\ [][NextLocalSubs]_vars

NextComposer ==
    \/ \E path \in ComposerPaths, value \in ComposerValues : CSetStart(path, value)
    \/ \E i \in 1..MaxSets + MaxDeletes : CSetDone(i)
    \/ \E path \in ComposerPaths : CDeleteStart(path)
    \/ \E i \in 1..MaxSets + MaxDeletes : CDeleteDone(i)
    \/ \E path \in ComposerPaths, callback \in Callbacks : CSubscribe(path, callback)
    \/ \E i \in 1..MaxSubs : CUnsubscribe(i)
    \/ \E path \in ComposerPaths : CPollTick(path)

\* the ComposerAdapter with its data directory and subscribers
SpecComposer == Init /\ [][NextComposer]_vars

NextRooms ==
    \/ \E user \in Users, synced \in SUBSET RoomIds :
            WConstruct(user, synced)
    \/ \E user \in Users : WCreateRoom(user)
    \/ \E roomId \in RoomIds : WCreateRoomDone(roomId)
    \/ \E user \in Users, roomId \in RoomIds :
            WJoinRoom(user, roomId)
    \/ \E user \in Users, roomId \in RoomIds :
            WLeaveRoom(user, roomId)
    \/ \E user \in Users, roomId \in RoomIds :
            WSendMessage(user, roomId)
    \/ \E msgId \in MessageIds : WSendMessageDone(msgId)
    \/ \E user \in Users, roomId \in RoomIds :
            WDeliverRoom(user, roomId)
    \/ \E user \in Users, msgId \in MessageIds : WDeliverMessage(user, msgId)
    \/ \E msgId \in MessageIds, t \in Times : WPeerPut(msgId, t)
    \/ WTick

\* the WorkroomsService instances of the users over the shared store
SpecRooms == Init /\ [][NextRooms]_vars

NextWatch ==
    \/ \E path \in ComposerPaths, value \in ComposerValues : XWrite(path, value)
    \/ \E path \in ComposerPaths : XRemove(path)
    \/ WatchEvent
    \/ \E i \in 1..MaxXChanges : WatchRead(i)
    \/ \E i \in 1..MaxXChanges : WatchDone(i)
    \/ \E path \in ComposerPaths, callback \in Callbacks : CSubscribe(path, callback)
    \/ \E i \in 1..MaxSubs : CUnsubscribe(i)
    \/ \E path \in ComposerPaths : CPollTick(path)

\* the watcher reports every event, and every read a handler asked for
\* comes back
FairWatch ==
    /\ WF_vars(WatchEvent)
    /\ \A i \in 1..MaxXChanges : WF_vars(WatchRead(i)) /\ WF_vars(WatchDone(i))

\* the connected ComposerAdapter with its watcher and subscribers, and the
\* other processes that write to its data directory
SpecWatch == Init /\ [][NextWatch]_vars /\ FairWatch

NextTyping ==
    \/ \E user \in Users, roomId \in RoomIds, typing \in BOOLEAN :
            TSetTyping(user, roomId, typing)
    \/ \E user \in Users, roomId \in RoomIds : TSetTypingDone(user, roomId)
    \/ \E user \in Users, roomId \in RoomIds : TTimerFires(user, roomId)
    \/ WTick

\* the store answers every put, and every timer fires after its delay
FairTyping ==
    \A user \in Users, roomId \in RoomIds :
        /\ WF_vars(TSetTypingDone(user, roomId))
        /\ WF_vars(TTimerFires(user, roomId))

\* the typing indicators of the users' services in the store
SpecTyping == Init /\ [][NextTyping]_vars /\ FairTyping

NextRegistry ==
    \/ \E name \in AdapterNames : RRegister(name)
    \/ \E name \in AdapterNames : RSetPrimary(name)
    \/ RConnectAll
    \/ \E name \in AdapterNames : RConnectSettles(name)
    \/ RConnectAllDone
    \/ RHealthCheck
    \/ RHealthSettles
    \/ RHealthCheckDone
    \/ \E name \in AdapterNames : RBackend(name)

\* the AdapterRegistry and the adapters registered with it
SpecRegistry == Init /\ [][NextRegistry]_vars

NextPublish ==
    \/ \E adapter \in PubAdapters, channel \in Channels : PPublish(adapter, channel)
    \/ \E msg \in PubMessages : PPublishDone(msg)

\* publish() calls on a LocalAdapter and a ComposerAdapter
SpecPublish == Init /\ [][NextPublish]_vars

NextBatch ==
    \/ \E operations \in BatchLists : BBatch(operations)
    \/ \E ok \in BOOLEAN : BOpSettles(ok)

\* batch() calls on a ComposerAdapter
SpecBatch == Init /\ [][NextBatch]_vars

NextGet ==
    \/ \E adapter \in GAdapters, path \in ComposerPaths, value \in GValues :
            GSet(adapter, path, value)
    \/ \E adapter \in GAdapters, path \in ComposerPaths : GDelete(adapter, path)
    \/ \E path \in ComposerPaths, value \in GValues :
            GExternalWrite(path, serializeFile(value))
    \/ \E path \in ComposerPaths : GExternalWrite(path, Broken)
    \/ \E adapter \in GAdapters, path \in ComposerPaths : GGet(adapter, path)

\* awaited set(), delete(), exists() and get() calls on a LocalAdapter and
\* a ComposerAdapter
SpecGet == Init /\ [][NextGet]_vars

\* publish() called while no other publish() on the same adapter and
\* channel is in flight: the caller awaits each call
PPublishAwaited(adapter, channel) ==
    /\ \A op \in pOps : op.key # <<adapter, channel>>
    /\ PPublish(adapter, channel)

NextPublishAwaited ==
    \/ \E adapter \in PubAdapters, channel \in Channels :
            PPublishAwaited(adapter, channel)
    \/ \E msg \in PubMessages : PPublishDone(msg)

\* publish() calls each awaited before the next one on its channel
SpecPublishAwaited == Init /\ [][NextPublishAwaited]_vars

NextEngine ==
    \/ \E user \in Creators, ok \in BOOLEAN : ECreateRoom(user, ok)
    \/ \E user \in Users, roomId \in ERoomIds, ok \in BOOLEAN : EJoinRoom(user, roomId, ok)
    \/ \E user \in Users, roomId \in ERoomIds, ok \in BOOLEAN : ELeaveRoom(user, roomId, ok)
    \/ \E user \in Users, roomId \in ERoomIds, ok \in BOOLEAN : ESendMessage(user, roomId, ok)
    \/ \E o \in Calls, ok \in BOOLEAN : EMessagePutDone(o, ok)
    \/ \E o \in Calls, ok \in BOOLEAN : ERoomPutDone(o, ok)
    \/ \E o \in Calls : EPresencePutDone(o)
    \/ \E user \in Users, roomId \in ERoomIds : EDeliverRoom(user, roomId)

\* the services' rooms, membership, presence and events
SpecEngine == Init /\ [][NextEngine]_vars

NextDispatch ==
    \/ \E server \in Servers, action \in Actions, fails \in BOOLEAN :
            DCommand(server, action, fails)
    \/ \E n \in 1..MaxDCommands, server \in Servers, action \in Actions, fails \in BOOLEAN :
            DSettles(n, server, action, fails)

\* the dispatch of workroom commands
SpecDispatch == Init /\ [][NextDispatch]_vars

NextList ==
    \/ \E path \in Paths, value \in Values : QSet(path, value)
    \/ \E path \in Paths : QDelete(path)
    \/ \E prefix \in Paths : QList(prefix)

\* the LocalAdapter and its list()
SpecList == Init /\ [][NextList]_vars

NextCoherence ==
    \/ \E path \in ComposerPaths, value \in ComposerValues : CSetStart(path, value)
    \/ \E i \in 1..(MaxSets + MaxDeletes + MaxCGets) : HSetDone(i)
    \/ \E path \in ComposerPaths : CDeleteStart(path)
    \/ \E i \in 1..(MaxSets + MaxDeletes + MaxCGets) : HDeleteDone(i)
    \/ \E path \in ComposerPaths : HGetStart(path)
    \/ \E i \in 1..(MaxSets + MaxDeletes + MaxCGets) : HGetRead(i)
    \/ \E i \in 1..(MaxSets + MaxDeletes + MaxCGets) : HGetDone(i)
    \/ WatchEvent
    \/ \E i \in 1..(MaxSets + MaxDeletes + MaxCGets) : WatchRead(i)
    \/ \E i \in 1..(MaxSets + MaxDeletes + MaxCGets) : WatchDone(i)

\* every file operation completes, the watcher reports every event, and
\* every read comes back
FairCoherence ==
    /\ \A i \in 1..(MaxSets + MaxDeletes + MaxCGets) :
          /\ WF_vars(HSetDone(i)) /\ WF_vars(HDeleteDone(i))
          /\ WF_vars(HGetRead(i)) /\ WF_vars(HGetDone(i))
          /\ WF_vars(WatchRead(i)) /\ WF_vars(WatchDone(i))
    /\ WF_vars(WatchEvent)

\* the connected ComposerAdapter with its watcher, under its own calls
SpecCoherence == Init /\ [][NextCoherence]_vars /\ FairCoherence

NextLife ==
    \/ AConnect
    \/ \E value \in LifeValues : ASet(value)
    \/ \E timer \in 1..MaxACalls : ATimerTick(timer)
    \/ ADisconnect

\* one LocalAdapter object through connect() and disconnect()
SpecLife == Init /\ [][NextLife]_vars

NextPing ==
    \/ PPing
    \/ \E round \in 1..MaxRounds, peer \in Peers, err \in BOOLEAN, latency \in Latencies :
            PAck(round, peer, err, latency)
    \/ \E peer \in Peers : PTimeout(peer)

\* timers fire: an armed 3 s timer that is not cleared runs its callback
FairPing == \A peer \in Peers : WF_vars(PTimeout(peer))

\* the NetworkMonitor and its rounds of pings
SpecPing == Init /\ [][NextPing]_vars /\ FairPing

NextSeed ==
    \/ \E user \in Users : IConstruct(user)
    \/ \E service \in 1..MaxServices : ISeedRoomPutDone(service)
    \/ \E service \in 1..MaxServices : ISeedPresencePutDone(service)

\* the services constructed over one store and their default rooms
SpecSeed == Init /\ [][NextSeed]_vars

NextTrack ==
    \/ \E id \in AgentIds, status \in AgentStatuses \cup {""} : KRegisterAgent(id, status)
    \/ \E id \in AgentIds, err \in BOOLEAN : KRegisterAck(id, err)
    \/ \E id \in AgentIds, status \in AgentStatuses : KUpdateAgentStatus(id, status)
    \/ \E id \in AgentIds, status \in AgentStatuses \cup {""} : KChannelData(id, status)
    \/ \E stale \in SUBSET AgentIds : KCheckAgentHealth(stale)

\* the AgentTracker
SpecTrack == Init /\ [][NextTrack]_vars

NextFeed ==
    \/ \E maxMessages \in FeedSizes : FConstruct(maxMessages)
    \/ FHandleMessage
    \/ \E count \in FeedCounts : FGetRecentMessages(count)
    \/ FClearMessages

\* the MessageFeed and its buffer
SpecFeed == Init /\ [][NextFeed]_vars

\* the createRoom() calls createDirectMessage() can have in flight
DmOps ==
    {[stage |-> stage, userId |-> userId,
      room |-> dmRoom(id, [name |-> <<DmUser, userId>>, type |-> "dm",
                           members |-> <<DmUser, userId>>])] :
        stage \in {"room", "presence"}, userId \in DmKnown, id \in 1..MaxDmCalls}

NextDm ==
    \/ \E userId \in DmPeers : MCreateDirectMessage(userId)
    \/ \E o \in DmOps : MRoomPutDone(o)
    \/ \E o \in DmOps : MPresencePutDone(o)

\* one WorkroomsService and its direct-message rooms
SpecDm == Init /\ [][NextDm]_vars

-----------------------------------------------------------------------------
(* Claims about the LocalAdapter *)

\* the data file is the serialisation of the whole map m
FileHolds(m) ==
    LET r == pathToObject(m)
    IN  r.ok /\ file = Doc(JSONstringify(r.obj))

\* C1: no write is lost: whenever the dirty flag is false and no save is in
\* flight (in particular once disconnect() has resolved), every value in
\* the in-memory map is in the data file.
C1_NoLostWrite ==
    (~isDirty /\ saves = <<>> /\ data # <<>>) => FileHolds(data)

\* C2: round trip across a restart: after set, disconnect() (resolved) and
\* connect() of a fresh adapter over the same file, get(p) is the value
\* that was stored at p, and the stored keys are the same as before.
C2_RoundTrip ==
    (lastOp.op = "connect" /\ nConnects >= 2) =>
        /\ MapKeys(data) = DOMAIN atDisc
        /\ \A p \in DOMAIN atDisc : getNestedValue(data, p) = atDisc[p]

\* C8: delete(path) cascades: afterwards exists(path) is false, exists(k)
\* is false for every key k that starts with path + '/', and every other
\* key keeps its value.
C8_DeleteCascade ==
    [][nDeletes' = nDeletes + 1 =>
        LET path == lastOp'.path
        IN  /\ ~exists(data', path)
            /\ \A k \in MapKeys(data) \cup MapKeys(data') \cup Paths :
                  IF k = path \/ startsWith(k, path \o <<"/">>)
                  THEN ~exists(data', k)
                  ELSE /\ MapHas(data', k) = MapHas(data, k)
                       /\ getNestedValue(data', k) = getNestedValue(data, k)]_vars

\* C8 witness: delete('a') has removed 'a/b' and left 'ab' in place
C8_Witness ==
    /\ lastOp = [op |-> "delete", path |-> PathA]
    /\ exists(before, PathA_B) /\ exists(before, PathAB)
    /\ ~exists(data, PathA_B) /\ ~exists(data, PathA)
    /\ getNestedValue(data, PathAB) = getNestedValue(before, PathAB)

\* C10: save() is atomic: the data file is never partially written, and no
\* save() that has written its temp file fails to rename it.
C10_AtomicSave ==
    /\ file.t \in {"absent", "doc"}
    /\ lastOp.op # "renameRejected"

-----------------------------------------------------------------------------
(* Claims about subscriptions *)

\* C6: a polling timer exists for a path exactly when a subscription on
\* that path is still active (its unsubscribe function was not called),
\* and the callback of every active subscription is still registered:
\* each unsubscribe removes only its own subscription.
C6_SubscriptionResources ==
    /\ \A path \in ComposerPaths :
          path \in cPolling <=>
              \E i \in 1..Len(cSubs) : cSubs[i].active /\ cSubs[i].path = path
    /\ \A i \in 1..Len(cSubs) :
          cSubs[i].active =>
              /\ cSubs[i].path \in DOMAIN cSubscribers
              /\ cSubs[i].cb \in Range(cSubscribers[cSubs[i].path])

\* C7: a callback subscribed on path p is invoked for every change made at
\* p or below p, set and delete alike, while its subscription is active.
C7_NotifiedAtOrUnder ==
    [][((nSets' = nSets + 1 \/ nDeletes' = nDeletes + 1) /\ data' # data) =>
        \A i \in 1..Len(lSubs) :
            (/\ lSubs[i].active
             /\ \/ lastOp'.path = lSubs[i].path
                \/ startsWith(lastOp'.path, lSubs[i].path \o <<"/">>))
            => \E n \in 1..Len(lCalls') : lCalls'[n].cb = lSubs[i].cb]_vars

-----------------------------------------------------------------------------
(* Claims about the ComposerAdapter *)

\* C9: delete(path) cascades: once it has completed (and no other call is
\* in flight), exists(path) is false and no key below path is left, neither
\* in memory nor as a file.
C9_ComposerDeleteCascade ==
    (cLast.op = "deleteDone" /\ cOps = <<>>) =>
        /\ ~cExists(cLast.path)
        /\ \A k \in ComposerPaths \cup DOMAIN cData \cup DOMAIN cFiles :
              startsWith(k, cLast.path \o <<"/">>) =>
                  k \notin DOMAIN cData /\ k \notin DOMAIN cFiles

-----------------------------------------------------------------------------
(* Claims about the WorkroomsService *)

\* the list is in ascending order of timestamp and no id occurs twice
SortedUnique(ms) ==
    \A i, j \in 1..Len(ms) :
        i < j => ms[i].timestamp <= ms[j].timestamp /\ ms[i].id # ms[j].id

\* C3: in every state, for every user and room, the list getRoomMessages
\* returns is sorted ascending by timestamp and holds each message id at
\* most once, whatever the store delivers, repeated deliveries of an id
\* with a changed timestamp included.
C3_MessagesSortedUnique ==
    \A user \in Users : \A roomId \in DOMAIN wMessages[user] :
        SortedUnique(getRoomMessages(user, roomId))

\* the messages of a room that sendMessage() calls have returned
SentIn(roomId) == {m \in wSent : m.roomId = roomId}

\* nothing is under way for the room: no call is in flight and every
\* service that registered a message handler for the room has been handed
\* every message the store holds for it
Settled(roomId) ==
    /\ wOps = {}
    /\ \A user \in Users : roomId \in wMsgSubs[user] =>
          \A msgId \in DOMAIN sMsgs : sMsgs[msgId].roomId = roomId =>
              \E i \in 1..Len(getRoomMessages(user, roomId)) :
                  getRoomMessages(user, roomId)[i] = sMsgs[msgId]

\* C4: once a room has been created on a running service, the second user
\* has joined it and each of the two has had one sendMessage() return, and
\* nothing is under way any more, getRoomMessages(roomId) is exactly those
\* two messages, in nondecreasing timestamp order, with distinct ids.
C4_EndToEndDelivery ==
    \A roomId \in wCreated :
        (/\ Settled(roomId)
         /\ Cardinality(SentIn(roomId)) = 2
         /\ {m.from : m \in SentIn(roomId)} = Users)
        => \A user \in Users :
              LET ms == getRoomMessages(user, roomId)
              IN  /\ Len(ms) = 2
                  /\ {ms[i].id : i \in 1..Len(ms)} = {m.id : m \in SentIn(roomId)}
                  /\ SortedUnique(ms)

\* C5: a sendMessage(roomId) call by a user who is not among the members
\* of the room (as the user's service holds it) is refused as not a
\* member, and leaves the room (messageCount, lastActivity) in the service
\* and in the store, the stored messages and the cached messages as they were.
C5_NonMemberRefused ==
    [][(/\ wSend'.result # "none"
        /\ wSend'.room \in DOMAIN wRooms[wSend'.user]
        /\ ~includes(wRooms[wSend'.user][wSend'.room].members, wSend'.user))
       => /\ wSend'.result = "NotAMember"
          /\ UNCHANGED <<sRooms, sMsgs, wRooms, wMessages, wOps, wSent>>]_vars

\* a user who is not a member of a room of the store has just been refused
C5_Witness ==
    /\ wSend.result = "NotAMember"
    /\ wSend.room \in DOMAIN sRooms
    /\ sRooms[wSend.room].messageCount = 0

-----------------------------------------------------------------------------
(* Claims about the watcher of the ComposerAdapter *)

\* what the file of a path key parses to, undefined when there is no file
FileValue(path) ==
    IF path \in DOMAIN cFiles THEN parseFile(cFiles[path]) ELSE Undefined

\* the cache holds what the file of the path key holds
CacheFollowsFile(path) ==
    IF path \in DOMAIN cFiles
    THEN path \in DOMAIN cData /\ cData[path] = FileValue(path)
    ELSE path \notin DOMAIN cData

\* a watcher handler has just dealt with the path key: the cache holds
\* what the file holds
WatcherCaughtUp(path) ==
    /\ cLast.op \in {"fileRead", "fileRemoved"}
    /\ cLast.path = path
    /\ CacheFollowsFile(path)

\* ... and the callback of every active subscription of the key has been
\* called with it
WatcherTold(path) ==
    /\ WatcherCaughtUp(path)
    /\ \A i \in 1..Len(cSubs) :
          (cSubs[i].active /\ cSubs[i].path = path) =>
              \E n \in 1..Len(cCalls) :
                  cCalls[n] = [cb |-> cSubs[i].cb, value |-> FileValue(path)]

\* C11: when another process has created, modified or removed the file of
\* a path key, the watcher eventually brings the cache to what the file
\* holds (the parsed content, or no entry) and calls every active
\* subscriber of the key with it (undefined for a removed file).
C11_WatcherNotifies ==
    \A path \in ComposerPaths :
        (cLast = [op |-> "external", path |-> path]) ~> WatcherTold(path)

\* the cache part of C11 alone
WatcherCatchesUp ==
    \A path \in ComposerPaths :
        (cLast = [op |-> "external", path |-> path]) ~> WatcherCaughtUp(path)

-----------------------------------------------------------------------------
(* Claims about typing indicators *)

\* C12: after setTyping(roomId, true) the caller's typing value for the
\* room is eventually cleared (0) by the timer the call sets; an explicit
\* setTyping(roomId, false) clears it at once, and a timer that fires
\* when the value is cleared already changes nothing in the store.
C12_TypingClears ==
    /\ \A k \in TypingKeys :
          (tLast.op = "call" /\ tLast.typing /\ <<tLast.user, tLast.room>> = k)
              ~> (sTyping[k] = 0)
    /\ [][\A k \in TypingKeys :
            /\ (tLast'.op = "call" /\ ~tLast'.typing /\ nTypingCalls' # nTypingCalls
                /\ <<tLast'.user, tLast'.room>> = k) => sTyping'[k] = 0
            /\ tTimers'[k] < tTimers[k] =>
                  /\ sTyping'[k] = 0
                  /\ \A other \in TypingKeys \ {k} : sTyping'[other] = sTyping[other]
                  /\ sTyping[k] = 0 => sTyping' = sTyping]_vars

\* a user set typing, cleared it explicitly, and the timer of the first
\* call has then fired on the cleared value; nothing is left pending
C12_Witness ==
    /\ tLast.op = "timer"
    /\ tLast.was = 0
    /\ sTyping[<<tLast.user, tLast.room>>] = 0
    /\ \A k \in TypingKeys : tTimers[k] = 0 /\ tOps[k] = 0
    /\ nTypingCalls = 2

-----------------------------------------------------------------------------
(* Claims about the AdapterRegistry *)

\* the names healthCheck() has written an entry for
EntryNames == {hcResults[i].name : i \in 1..Len(hcResults)}

\* C13: when healthCheck() returns, its results hold exactly one entry per
\* registered adapter name; an entry written while the adapter's backend
\* could not be reached (or while its health() threw) says 'unhealthy', an
\* entry written while the adapter was connected and its backend could be
\* reached says 'healthy'; healthCheck() itself never throws.
C13_HealthCheck ==
    rLast.op = "healthCheckDone" =>
        /\ ~rLast.threw
        /\ Len(hcResults) = Len(adapters)
        /\ EntryNames = {adapters[i] : i \in 1..Len(adapters)}
        /\ \A i \in 1..Len(hcResults) :
                /\ ~hcResults[i].up => hcResults[i].status = "unhealthy"
                /\ (hcResults[i].up /\ hcResults[i].flag) => hcResults[i].status = "healthy"

\* what C13 keeps of healthCheck() when the status of an unreachable
\* adapter is left open: one entry per registered name, 'healthy' for a
\* connected adapter whose backend can be reached, 'unhealthy' where
\* health() threw, never a throw
HealthCheckShape ==
    rLast.op = "healthCheckDone" =>
        /\ ~rLast.threw
        /\ Len(hcResults) = Len(adapters)
        /\ EntryNames = {adapters[i] : i \in 1..Len(adapters)}
        /\ \A i \in 1..Len(hcResults) :
                /\ hcResults[i].status \in {"healthy", "degraded", "unhealthy"}
                /\ (hcResults[i].up /\ hcResults[i].flag) => hcResults[i].status = "healthy"
                /\ health(hcResults[i].name, hcResults[i].flag, hcResults[i].up) = "throws"
                        => hcResults[i].status = "unhealthy"

\* C14: when connectAll() resolves, every adapter whose connect() was
\* fulfilled is connected and every adapter whose connect() was rejected
\* is not; connectAll() itself never throws.
C14_ConnectAll ==
    /\ rLast.op = "connectAll" =>
            \A n \in AdapterNames : has(adapters, n) => conn[n] = "pending"
    /\ rLast.op = "connectAllDone" =>
            /\ ~rLast.threw
            /\ \A n \in AdapterNames :
                    /\ conn[n] = "connected" => aFlag[n]
                    /\ conn[n] = "failed" => ~aFlag[n]
\* C15: once an adapter is registered, getPrimary() returns a registered
\* adapter; the first adapter registered becomes the primary, and after
\* that the primary changes in setPrimary() only: not in register() of a
\* further or of a known name, not in connectAll(), not in healthCheck().
C15_PrimaryPointer ==
    /\ [](adapters # <<>> => getPrimary(adapters, primaryAdapter) # Null)
    /\ [][(rLast'.op = "register" /\ adapters = <<>>)
                => (primaryAdapter' = rLast'.name)]_vars
    /\ [][(primaryAdapter' # primaryAdapter)
                => (\/ rLast'.op = "setPrimary"
                    \/ rLast'.op = "register" /\ adapters = <<>>)]_vars

\* two adapters are registered, connectAll() and healthCheck() have run to
\* their ends, and the first adapter registered is still the primary
C15_Witness ==
    /\ Len(adapters) >= 2
    /\ connAll = "resolved"
    /\ rLast.op = "healthCheckDone"
    /\ Len(hcResults) = Len(adapters)
    /\ primaryAdapter = adapters[1]

\* C16: setPrimary(name) with a name that is not registered throws and
\* leaves the primary and the registered adapters as they were; with a
\* registered name it does not throw, and getPrimary() returns that adapter.
C16_SetPrimary ==
    [][rLast'.op = "setPrimary" =>
        IF has(adapters, rLast'.name)
        THEN /\ ~rLast'.threw
             /\ getPrimary(adapters', primaryAdapter') = rLast'.name
        ELSE /\ rLast'.threw
             /\ primaryAdapter' = primaryAdapter
             /\ adapters' = adapters]_vars

\* setPrimary() has made the second adapter the primary, and a later
\* setPrimary() with a name that is not registered has thrown
C16_Witness ==
    /\ Len(adapters) = 2
    /\ primaryAdapter = adapters[2]
    /\ rLast.op = "setPrimary"
    /\ rLast.threw
    /\ ~has(adapters, rLast.name)
-----------------------------------------------------------------------------
(* Claims about publish() *)

\* the history stored for a key, [] when nothing is stored
history(k) == IF pStore[k] = 0 THEN <<>> ELSE pArrays[pStore[k]]

\* the most recent c entries of s
mostRecent(s, c) == IF Len(s) > c THEN SubSeq(s, Len(s) - c + 1, Len(s)) ELSE s

\* C17: once the publish() calls made on a channel have returned, the
\* channel's stored history holds at most cap entries and is exactly the
\* most recent min(n, cap) messages published on it, in publish order,
\* whether or not the calls were awaited one by one; and a publish() on
\* one channel leaves the history of every other channel as it was.
C17_BoundedHistory ==
    /\ [](\A k \in PubKeys :
            (\A op \in pOps : op.key # k)
                => /\ Len(history(k)) <= cap(k[1])
                   /\ history(k) = mostRecent(pPublished[k], cap(k[1])))
    /\ [][\A k \in PubKeys :
            (\A op \in pOps \ pOps' : op.key # k) => history(k)' = history(k)]_vars
-----------------------------------------------------------------------------
(* Claims about batch() *)

RECURSIVE applyOps(_, _)
\* the store after the operations were applied one by one, every set() and
\* delete() run to its end
applyOps(store, operations) ==
    IF operations = <<>> THEN store
    ELSE applyOps([cache |-> opStart(store.cache, Head(operations)),
                   files |-> opDone(store.files, Head(operations))],
                  Tail(operations))

\* C18: batch() applies its operations in list order.  When it has
\* resolved, the store is what applying the operations one by one to the
\* store batch() was called on gives.
\* When it has rejected, exactly one operation k failed, the operations
\* before k are applied (files and cache), and no operation after k has
\* touched the files or the cache: the cache is that of operations 1..k-1
\* followed by the part of operation k that ran before it failed.
C18_BatchSequential ==
    /\ bStage = "resolved" =>
            /\ bFailed = {}
            /\ [cache |-> bData, files |-> bFiles] = applyOps(bBefore, bOps)
    /\ bStage = "rejected" =>
            /\ bFailed = {bPos}
            /\ LET done == applyOps(bBefore, SubSeq(bOps, 1, bPos - 1))
               IN  /\ bFiles = done.files
                   /\ bData = opStart(done.cache, bOps[bPos])

\* a batch of three operations was rejected at its second one, a set()
\* that follows a set() and is followed by a delete() of the first path
C18_Witness ==
    /\ bStage = "rejected"
    /\ Len(bOps) = 3
    /\ bPos = 2
    /\ bOps[1].type = "set"
    /\ bOps[2].type = "set"
    /\ bOps[3].type = "delete"
    /\ bOps[3].path = bOps[1].path
    /\ bOps[1].path \in DOMAIN bFiles
-----------------------------------------------------------------------------
(* Claims about get() and exists() *)

\* C19: get(path) never throws.  On a key that was never set, or whose
\* delete(path) was the last call on it, get() returns undefined and
\* exists() false; on a key that holds a value, the empty object and the
\* empty array included, get() returns that value and exists() true.
C19_MissingKey ==
    gLast.op = "get" =>
        LET s == gStatus[<<gLast.adapter, gLast.path>>]
        IN  /\ ~gLast.threw
            /\ s \in {Never, Deleted} => (gLast.value = Undefined /\ ~gLast.exists)
            /\ s \notin {Never, Deleted, Broken} => (gLast.value = s /\ gLast.exists)

\* get() on a key of the LocalAdapter that was set and then deleted has
\* returned undefined, while the ComposerAdapter holds the empty object
\* under a key
C19_Witness ==
    /\ gLast.op = "get"
    /\ gLast.adapter = "local"
    /\ gStatus[<<"local", gLast.path>>] = Deleted
    /\ gLast.value = Undefined
    /\ ~gLast.exists
    /\ gStatus[<<"composer", PathA>>] = EmptyObj
-----------------------------------------------------------------------------
(* Claims about the tree of path keys *)

\* no key of the set is stored under another key of the set
TreeOfKeys(keys) == \A p, q \in keys : ~startsWith(q, p \o <<"/">>)

\* C20: in every reachable state of the LocalAdapter's map, no stored key
\* p has another stored key starting with p + '/' beside it: set(p, v)
\* followed by set(p + '/q', w) never leaves both stored.
C20_PathKeyTree == TreeOfKeys(MapKeys(data))

\* the statement for the cache and the files of the ComposerAdapter, whose
\* set() stores 'a' and 'a/b' side by side as well
ComposerPathKeyTree == TreeOfKeys(DOMAIN cData) /\ TreeOfKeys(DOMAIN cFiles)

-----------------------------------------------------------------------------
(* Claims about rooms, membership, presence and events *)

\* how often a user is listed in room.members
occurrences(members, user) == Cardinality({i \in DOMAIN members : members[i] = user})

\* the calls that started waiting in this step
started == IF nECalls' = nECalls + 1 THEN BagToSet(eOps' (-) eOps) ELSE {}

membersOnce(room) == room # NoRoom => \A v \in Users : occurrences(room.members, v) <= 1

\* C22: joinRoom() on a room the service knows leaves the caller in the
\* members of that room exactly once, however often it is called: a caller
\* who is not a member is appended and the room is put to the store, a
\* caller who is a member changes nothing; no room lists a user twice; the
\* call puts the caller's presence record before it resolves.  joinRoom() on
\* an id the service does not know is rejected with 'Room not found',
\* changes no room and puts no presence record.
C22_JoinRoom ==
    /\ [](\A u \in Users, i \in ObjIds : membersOnce(eObjs[u][i]))
    /\ [](\A r \in ERoomIds : membersOnce(eStore[r]))
    /\ [][\A o \in started : o.op = "joinRoom" =>
            /\ occurrences(eObjs'[o.user][o.obj].members, o.user) = 1
            /\ IF includes(eObjs[o.user][o.obj].members, o.user)
               THEN /\ o.stage = "presence"
                    /\ UNCHANGED <<eObjs, eStore>>
               ELSE /\ o.stage = "put"
                    /\ eObjs'[o.user][o.obj] = push(eObjs[o.user][o.obj], o.user)
                    /\ eStore'[o.roomId] = eObjs'[o.user][o.obj]]_vars
    /\ [][\A o \in BagToSet(eOps' (-) eOps) :
            (o.op = "joinRoom" /\ o.stage = "presence") =>
                eStPres'[o.roomId][o.user] = "present"]_vars
    /\ [][(eLast'.op = "joinRoom" /\ eLast'.result = "ok") =>
            \E o \in BagToSet(eOps) :
                /\ o.op = "joinRoom" /\ o.stage = "presence"
                /\ o.user = eLast'.user /\ o.roomId = eLast'.roomId]_vars
    /\ [][(eLast'.op = "joinRoom" /\ eLast'.result = "RoomNotFound") =>
            /\ eRooms[eLast'.user][eLast'.roomId] = 0
            /\ UNCHANGED <<eObjs, eRooms, eStore, eStPres, eOps>>]_vars
    /\ [][(nECalls' = nECalls + 1 /\ eLast'.op = "joinRoom"
           /\ eRooms[eLast'.user][eLast'.roomId] = 0) =>
            eLast'.result = "RoomNotFound"]_vars

\* two joinRoom() calls of u2 on the room of u1 wait for the store at the same
\* time, the first for the room's put and the second for the presence put
C22_Witness ==
    /\ \E o \in BagToSet(eOps) : o.op = "joinRoom" /\ o.user = "u2" /\ o.stage = "put"
    /\ \E o \in BagToSet(eOps) : o.op = "joinRoom" /\ o.user = "u2" /\ o.stage = "presence"
    /\ roomsGet("u2", 1).members = <<"u1", "u2">>
    /\ eStore[1].members = <<"u1", "u2">>

\* C23: leaveRoom() on a room the service knows takes the caller, and nobody
\* else, out of the members of the room in the service and in the store:
\* the persisted room lists afterwards the members it listed before, without
\* the caller; the call then puts null as the caller's presence record, so
\* that the map the presence handler builds has no record for the caller.
C23_LeaveRoom ==
    /\ [][\A o \in started : o.op = "leaveRoom" =>
            /\ eObjs'[o.user][o.obj].members = filterOut(eObjs[o.user][o.obj].members, o.user)
            /\ eStore'[o.roomId].members = filterOut(eStore[o.roomId].members, o.user)]_vars
    /\ [][\A o \in BagToSet(eOps' (-) eOps) :
            (o.op = "leaveRoom" /\ o.stage = "presence") =>
                ~present(presenceHandler(eStPres'[o.roomId]), o.user)]_vars

\* sendMessage() calls waiting for the store on a room
sending(roomId) == \E o \in BagToSet(eOps) : o.op = "sendMessage" /\ o.roomId = roomId

\* C24: an accepted sendMessage() puts exactly one new message, under an id no
\* message has; after the message's put it counts the message in the room and
\* puts the room; and whenever no sendMessage() waits on a room and the store
\* refused no put, the messageCount of the persisted room is the number of
\* sendMessage() calls on it that resolved.
C24_SendMessage ==
    /\ [][\A o \in started : o.op = "sendMessage" =>
            \E m \in eStMsgs' :
                /\ eStMsgs' = eStMsgs \cup {m}
                /\ \A old \in eStMsgs : old.id # m.id
                /\ m.roomId = o.roomId /\ m.from = o.user]_vars
    /\ [][\A o \in BagToSet(eOps' (-) eOps) :
            (o.op = "sendMessage" /\ o.stage = "put") =>
                /\ eObjs'[o.user][o.obj].messageCount = eObjs[o.user][o.obj].messageCount + 1
                /\ eStore'[o.roomId] = eObjs'[o.user][o.obj]]_vars
    /\ [](\A r \in ERoomIds :
            (eStore[r] # NoRoom /\ ~sending(r) /\ nEFail = 0) =>
                eStore[r].messageCount = eSent[r])

\* the event type of a call
eventType(op) ==
    CASE op = "createRoom" -> "room_created"
      [] op = "joinRoom" -> "join"
      [] op = "leaveRoom" -> "leave"
      [] op = "sendMessage" -> "message"
      [] OTHER -> "none"

\* C25: in the step in which a createRoom(), joinRoom(), leaveRoom() or
\* sendMessage() call resolves, the handlers are called with the event of the
\* call's type for the call's room; in the step in which a call is rejected
\* no event is handed to them.
C25_Events ==
    /\ [][(eLast'.result = "ok") =>
            \E i \in DOMAIN eEmit' :
                eEmit'[i] = emit(eventType(eLast'.op), eLast'.roomId, eLast'.user)]_vars
    /\ [][(eLast'.result \in {"RoomNotFound", "NotAMember", "StoreFailed"}) =>
            eEmit' = <<>>]_vars

\* what a service has cached: its rooms and the rooms it has a message list for
cached(user) == <<[r \in ERoomIds |-> roomsGet(user, r)], eMessages[user]>>

\* C27: the step in which createRoom(), joinRoom(), leaveRoom() or
\* sendMessage() is rejected (unknown room, not a member, or a put the store
\* refused) leaves what the caller's service has cached as it was.
C27_RejectedUnchanged ==
    [][\A u \in Users :
         (eLast'.user = u /\ eLast'.result \in {"RoomNotFound", "NotAMember", "StoreFailed"}) =>
             cached(u)' = cached(u)]_vars

-----------------------------------------------------------------------------
(* Claims about the dispatch of commands *)

\* C26: when the operation behind a command fails, the message sent to the
\* caller is a failure result that carries the name of the action and the
\* error message.
C26_StructuredFailure ==
    [][(dFailed' # NoReply) =>
         /\ dReply'.type \in {"workroom-error", "error"}
         /\ "command" \in DOMAIN dReply' /\ dReply'.command = dFailed'.action
         /\ \/ "error" \in DOMAIN dReply' /\ dReply'.error = dFailed'.error
            \/ "message" \in DOMAIN dReply' /\ dReply'.message = dFailed'.error]_vars

-----------------------------------------------------------------------------
(* Claims about the order of writes, polling and list() *)

\* C28: once every set() and delete() issued on the ComposerAdapter has
\* completed, memory and file of every path agree with the operation issued
\* last on it: a path in memory has a file holding its value, a path not in
\* memory has no file.
C28_ProgramOrder ==
    cOps = <<>> =>
        \A path \in ComposerPaths :
            IF path \in DOMAIN cData
            THEN path \in DOMAIN cFiles /\ parseFile(cFiles[path]) = cData[path]
            ELSE path \notin DOMAIN cFiles

\* BaseMemoryAdapter.startPolling(path): it is empty, and the LocalAdapter
\* does not override it
baseStartPolling(polling, path) == polling

\* the paths the LocalAdapter has a polling timer for after its first i
\* subscribe() calls
RECURSIVE lPolling(_)
lPolling(i) == IF i = 0 THEN {} ELSE baseStartPolling(lPolling(i - 1), lSubs[i].path)

\* C29: while a subscription of the LocalAdapter on a path is active, the
\* adapter has a timer for the path, whose ticks call the subscribers of the
\* path with its current value.
C29_PollTicks ==
    \A i \in 1..Len(lSubs) : lSubs[i].active => lSubs[i].path \in lPolling(Len(lSubs))

\* a sequence without repetitions
noDuplicates(s) == \A i, j \in 1..Len(s) : i # j => s[i] # s[j]

\* C30: list(prefix) of the LocalAdapter returns exactly the stored keys that
\* start with the prefix: every such key, nothing that is not a stored key,
\* and no key twice.
C30_ListExact ==
    (qLast.op = "list" /\ qLast.ok) =>
        /\ \A k \in MapKeys(qData) : startsWith(k, qLast.prefix) => k \in Range(qLast.results)
        /\ \A k \in Range(qLast.results) : exists(qData, k) /\ startsWith(k, qLast.prefix)
        /\ noDuplicates(qLast.results)

\* list(prefix) of the ComposerAdapter returns every key that exists() and
\* starts with the prefix
ComposerListComplete ==
    \A prefix \in ComposerPaths, k \in ComposerPaths :
        (composerExists(gcData, gcFiles, k) /\ startsWith(k, prefix)) =>
            k \in Range(composerList(gcData, prefix))

\* C31: isConnected() is true after connect() and false after disconnect();
\* a connect() on a connected adapter leaves the values of the map as they
\* were; at most one save timer is active at any time, and none once
\* disconnect() has resolved.
C31_Lifecycle ==
    [][/\ (aLast' = "connect" => aReady')
       /\ (aLast' = "disconnect" => ~aReady')
       /\ ((aLast' = "connect" /\ aReady) => aData' = aData)
       /\ Cardinality(aTimers') <= 1
       /\ (aLast' = "disconnect" => aTimers' = {})]_vars

\* C32: a peer whose 3 s timer fires before its ack is recorded as not
\* connected and 'peer:disconnected' is emitted for it in that step; an ack
\* that arrives after the peer's promise has settled changes no recorded
\* status; every pingPeers() that was started completes.
C32_PingPeers ==
    /\ [][/\ pLast'.op = "timeout" =>
                /\ ~pPeers'[pLast'.peer].connected
                /\ \E i \in DOMAIN pEmit' :
                       pEmit'[i] = [type |-> "peer:disconnected", arg |-> pLast'.peer]
          /\ (pLast'.op = "ack" /\ pLast'.late) => pPeers' = pPeers]_vars
    /\ (pRunning ~> ~pRunning)

\* an ack has arrived after the timeout of its peer, in a round that has
\* completed
C32_Witness ==
    /\ pLast.op = "ack"
    /\ pLast.late
    /\ ~pPeers[pLast.peer].connected
    /\ ~pRunning
    /\ pRound = MaxRounds

\* the rooms of the store that a service's createRoom() calls built
seeded(service) == {room \in iStore : \E k \in DOMAIN iObjs[service] : iObjs[service][k] = room}

\* every createRoom() call of the service has returned
seedingDone(service) == \A k \in DOMAIN iStage[service] : iStage[service][k] = "done"

\* C33: once the createRoom() calls of a constructed service have all
\* returned, the store holds exactly 17 rooms of that service: 1 of type
\* global, 6 of type project, 10 of type team, each with an id no other room
\* of the store has and with the current user as its only member; when two
\* services were constructed over the store, each default name is the name
\* of two rooms.
C33_Seeding ==
    /\ \A room \in iStore : Cardinality({other \in iStore : other.id = room.id}) = 1
    /\ \A service \in DOMAIN iStage :
          seedingDone(service) =>
             /\ Cardinality(seeded(service)) = 17
             /\ Cardinality({room \in seeded(service) : room.type = "global"}) = 1
             /\ Cardinality({room \in seeded(service) : room.type = "project"}) = 6
             /\ Cardinality({room \in seeded(service) : room.type = "team"}) = 10
             /\ \A room \in seeded(service) : room.members = <<iUser[service]>>
    /\ (Len(iStage) = 2 /\ seedingDone(1) /\ seedingDone(2)) =>
          /\ Cardinality(iStore) = 34
          /\ \A i \in DOMAIN defaultRooms :
                Cardinality({room \in iStore : room.name = defaultRooms[i].name}) = 2

\* two services were constructed and all their createRoom() calls returned
C33_Witness ==
    /\ Len(iStage) = 2
    /\ seedingDone(1)
    /\ seedingDone(2)
    /\ Cardinality(iStore) = 34

\* C34: after registerAgent(id, data), the agent is among getOnlineAgents()
\* exactly when data.status is 'online' (a data without status registers an
\* online agent); in particular an agent registered with status 'offline'
\* is not among them.
C34_OnlineAgents ==
    kLast.op = "register" =>
        (kLast.id \in getOnlineAgents(kAgents) <=> kLast.status \in {"online", ""})

\* the last entries of a sequence, all of them when it is shorter
lastOf(s, n) == SubSeq(s, (IF Len(s) > n THEN Len(s) - n ELSE 0) + 1, Len(s))

\* C35: the buffer of a constructed feed never holds more than maxMessages
\* entries, and they are consecutive arrivals in the order of arrival;
\* getRecentMessages(n) returns at most n entries, the last n of the buffer
\* (all of it when it holds fewer); after clearMessages() the buffer is
\* empty.
C35_FeedBound ==
    /\ Len(fMessages) <= fMax
    /\ \A i \in 1..(Len(fMessages) - 1) : fMessages[i + 1] = fMessages[i] + 1
    /\ fLast.op = "message" => (fMessages # <<>> /\ fMessages[Len(fMessages)] = fArrived)
    /\ fLast.op = "recent" =>
          /\ Len(fLast.result) <= fLast.count
          /\ fLast.result = lastOf(fMessages, fLast.count)
    /\ fLast.op = "clear" => fMessages = <<>>

\* the same for the calls getRecentMessages(n) with n of at least 1
FeedBoundPositive ==
    /\ Len(fMessages) <= fMax
    /\ \A i \in 1..(Len(fMessages) - 1) : fMessages[i + 1] = fMessages[i] + 1
    /\ fLast.op = "message" => (fMessages # <<>> /\ fMessages[Len(fMessages)] = fArrived)
    /\ (fLast.op = "recent" /\ fLast.count >= 1) =>
          /\ Len(fLast.result) <= fLast.count
          /\ fLast.result = lastOf(fMessages, fLast.count)
    /\ fLast.op = "clear" => fMessages = <<>>

\* nothing of the ComposerAdapter is in flight: no set(), delete() or get()
\* awaits, the watcher has reported every event and every handler has
\* finished
quiescent == cOps = <<>> /\ cEvents = <<>> /\ cReads = <<>>

\* C36: when no operation and no watch event is pending, every key of the
\* cache has a file whose parsed content is the cached value, and every
\* key that has a file is in the cache with it.
C36_Coherence == quiescent => \A path \in ComposerPaths : CacheFollowsFile(path)

\* the direct-message rooms the service has made for a peer
dmRoomsWith(userId) == {room \in mRooms : room.type = "dm" /\ room.name = <<DmUser, userId>>}

\* C37: the room createDirectMessage(userId) returns is a 'dm' room whose
\* members are the current user and userId and nobody else, and the
\* service never holds more than one 'dm' room made for the same peer.
C37_DirectMessage ==
    /\ mLast.op = "returned" =>
          /\ mLast.room.type = "dm"
          /\ Range(mLast.room.members) = {DmUser, mLast.userId}
    /\ \A userId \in DmKnown : Cardinality(dmRoomsWith(userId)) <= 1

\* C38: in the events a service emits to its listeners, no 'join', 'leave'
\* or 'message' event of a room comes before the 'room_created' event of
\* that room.
C38_EventOrder ==
    \A i, j \in DOMAIN eEmit :
        (i < j /\ eEmit[j].type = "room_created" /\ eEmit[i].roomId = eEmit[j].roomId) =>
            eEmit[i].type \notin {"join", "leave", "message"}

\* C39: a timer that fires while a timer of a later setTyping(roomId, true)
\* of the same user and room is still pending does not clear a typing value
\* that is set.
C39_TypingReasserted ==
    \A k \in TypingKeys :
        (/\ tLast.op = "timer"
         /\ <<tLast.user, tLast.room>> = k
         /\ tLast.was # 0
         /\ tTimers[k] > 0) => sTyping[k] # 0

\* the number of times a set() step called the callback
timesCalled(calls, callback) == Cardinality({n \in DOMAIN calls : calls[n].cb = callback})

\* the active subscriptions made with the callback
activeWith(callback) == {i \in DOMAIN lSubs : lSubs[i].active /\ lSubs[i].cb = callback}

\* C40: a set(p, v) of the LocalAdapter calls a callback exactly once when
\* its only active subscription is one on p, and does not call a callback
\* that has no active subscription.
C40_NotifiedOnce ==
    [][nSets' = nSets + 1 =>
          \A callback \in Callbacks :
             /\ (\E i \in DOMAIN lSubs :
                    activeWith(callback) = {i} /\ lSubs[i].path = lastOp'.path)
                   => timesCalled(lCalls', callback) = 1
             /\ activeWith(callback) = {} => timesCalled(lCalls', callback) = 0]_vars

====
